---- MODULE Spec2Model ----
(***************************************************************************)
(* Content-extraction pipeline of pyDigestor                               *)
(* (src/src/pydigestor/sources/extraction.py): PatternRegistry and         *)
(* ContentExtractor.  One ContentExtractor instance is the state; extract, *)
(* reset_metrics and PatternRegistry.register are the actions.  The HTTP   *)
(* layer, the third-party extractors and registered plugin handlers are    *)
(* the environment: each call draws their outcomes nondeterministically.   *)
(***************************************************************************)
EXTENDS Integers, Sequences, FiniteSets, TLC

\* ------------------------------------------------------------------ bounds
\* Number of extract calls explored on one extractor.
MaxCalls == 2
\* Number of PatternRegistry.register calls made by plugins.
MaxRegs == 1
\* Number of register calls made in a row on a registry called on its own.
MaxSeq == 3
\* Entries one ingest run fetches, ingest runs, direct _store_article calls.
MaxEntries == 2
MaxRuns == 1
MaxStores == 2
\* Threads sharing one RateLimiter, wait_if_needed calls per thread, reset
\* calls, seconds the clock advances outside time.sleep, and seconds
\* time.sleep may overrun.
NumThreads == 2
MaxWaits == 2
MaxResets == 1
MaxTime == 3
MaxOversleep == 1
\* extract calls each thread makes on the shared extractor.
MaxThreadCalls == 1

\* --------------------------------------------------------- program constants
\* Textual validity threshold: len(content.strip()) > 100.
TextThreshold == 100
\* Document validity threshold: len(full_text.strip()) < 500 is rejected.
PdfThreshold == 500
\* Priorities of the built-in patterns.
PdfPriority == 10
GithubPriority == 5

\* ---------------------------------------------------------------- strings
\* A Python value a strategy can produce where a string is expected:
\*   k = "none"  : None
\*   k = "str"   : a str whose stripped length is len, with pad characters of
\*                 leading/trailing whitespace around it
\*   k = "tuple" : the pair (content, metadata) of the extension contract,
\*                 content being the str described by len and pad
NoneC == [k |-> "none", len |-> 0, pad |-> 0]

Str(n, p) == [k |-> "str", len |-> n, pad |-> p]

Tuple(n, p) == [k |-> "tuple", len |-> n, pad |-> p]

\* len(s) of a str.
RawLen(c) == c.len + c.pad

\* s.strip()
Strip(c) == [c EXCEPT !.pad = 0]

\* Python truthiness: None and "" are falsy, a 2-tuple is always truthy.
Truthy(c) ==
  CASE c.k = "none" -> FALSE
    [] c.k = "str" -> RawLen(c) > 0
    [] OTHER -> TRUE

\* ------------------------------------------------------------------- URLs
\* A URL is scheme://host/segs[1]/.../segs[n]<ext>?query with the host a
\* sequence of dot-separated labels.  ok = FALSE stands for a netloc with an
\* unbalanced bracket ("http://[bad"), on which urllib.parse.urlparse raises
\* ValueError.  NoURL stands for None.
URL(s, h, p, e, q) ==
  [scheme |-> s, host |-> h, segs |-> p, ext |-> e, query |-> q, ok |-> TRUE]

NoURL == [scheme |-> "", host |-> <<>>, segs |-> <<>>, ext |-> "", query |-> "", ok |-> TRUE]

U_article == URL("https", <<"example", "com">>, <<"news", "a1">>, "", "")
U_final == URL("https", <<"www", "example", "com">>, <<"news", "a1">>, "", "")
U_pdf == URL("https", <<"example", "com">>, <<"files", "paper">>, ".pdf", "")
U_pdfq == URL("https", <<"example", "com">>, <<"files", "paper">>, ".pdf", "dl=1")
U_pdfdir == URL("https", <<"example", "com">>, <<"pdf", "paper">>, "", "")
U_github == URL("https", <<"github", "com">>, <<"org", "repo">>, "", "")
U_lemmy == URL("https", <<"lemmy", "world">>, <<"post", "42">>, "", "")
U_lemmyNoId == URL("https", <<"www", "lemmy", "world">>, <<"c", "security">>, "", "")
U_post == URL("https", <<"example", "com">>, <<"post", "7">>, "", "")
U_arxiv == URL("http", <<"arxiv", "org">>, <<"abs", "2501.02496">>, "", "")
U_medium == URL("https", <<"medium", "com">>, <<"@user", "story">>, "", "")
U_bad == [scheme |-> "http", host |-> <<"[bad">>, segs |-> <<>>, ext |-> "", query |-> "", ok |-> FALSE]

\* URLs handed to extract.
InputURLs ==
  {U_article, U_pdf, U_pdfq, U_pdfdir, U_github, U_lemmy, U_lemmyNoId, U_post,
   U_arxiv, U_medium, U_bad}

\* Destinations an aggregator post can point to.
DestURLs == {U_article, U_arxiv, U_lemmy, U_bad}

\* Identifiers matching \d+\.\d+ .
ArxivIds == {"2501.02496", "1706.03762"}

\* LEMMY_INSTANCES, as host label sequences.
LEMMY_INSTANCES ==
  {<<"infosec", "pub">>, <<"lemmy", "world">>, <<"lemmy", "ml">>, <<"beehaw", "org">>,
   <<"lemmy", "one">>, <<"programming", "dev">>, <<"sh", "itjust", "works">>}

\* needle is a contiguous run inside hay (substring test on label sequences).
Infix(needle, hay) ==
  \E i \in 0..(Len(hay) - Len(needle)) : SubSeq(hay, i + 1, i + Len(needle)) = needle

\* netloc.replace("www.", ""): every label "www" that a dot follows is removed.
RECURSIVE StripWww(_)
StripWww(h) ==
  IF Len(h) <= 1 THEN h
  ELSE IF Head(h) = "www" THEN StripWww(Tail(h))
  ELSE <<Head(h)>> \o StripWww(Tail(h))

\* "/seg/" in path: a segment named seg that another segment follows.
HasDirSeg(u, seg) == \E i \in 1..(Len(u.segs) - 1) : u.segs[i] = seg

\* A matcher string of ExtractionPattern.domains: a host-like needle
\* (kind "host", labels) or a literal URL fragment (kind "text", text).
HostNeedle(labels) == [kind |-> "host", labels |-> labels, text |-> ""]

TextNeedle(t) == [kind |-> "text", labels |-> <<>>, text |-> t]

\* pattern in domain  (domain = netloc.lower().replace("www.", ""))
InDomain(n, u) == n.kind = "host" /\ Infix(n.labels, StripWww(u.host))

\* pattern in url.lower()
InUrl(n, u) ==
  CASE n.kind = "host" -> Infix(n.labels, u.host)
    [] n.text = ".pdf" -> u.ext = ".pdf"
    [] n.text = "/pdf/" -> HasDirSeg(u, "pdf")
    [] OTHER -> FALSE

\* ------------------------------------------------------- ExtractionPattern
Pattern(n, d, h, p) == [name |-> n, domains |-> d, handler |-> h, priority |-> p]

\* ExtractionPattern.matches, for a URL urlparse accepts: some matcher is a
\* substring of the www-stripped host or of the whole URL.
matches(p, u) ==
  \E i \in 1..Len(p.domains) : InDomain(p.domains[i], u) \/ InUrl(p.domains[i], u)

\* The built-in patterns of ContentExtractor._register_patterns.
PdfPattern == Pattern("pdf", <<TextNeedle(".pdf"), TextNeedle("/pdf/")>>, "pdf_pattern", PdfPriority)

GithubPattern == Pattern("github", <<HostNeedle(<<"github", "com">>)>>, "github", GithubPriority)

\* Patterns plugins register through the register_extractors hook; their
\* handlers are environment code following handler: url -> (content, metadata).
PluginPatterns ==
  {Pattern("plug_hi", <<HostNeedle(<<"example", "com">>)>>, "plugin", 11),
   Pattern("plug_lo", <<HostNeedle(<<"example", "com">>)>>, "plugin", 3),
   Pattern("plug_tie", <<HostNeedle(<<"github", "com">>)>>, "plugin", 5),
   Pattern("playwright", <<>>, "plugin", 1)}

\* list.sort(key=priority, reverse=True): stable, descending.  Insert x
\* behind every element whose priority is not lower.
RECURSIVE InsertDesc(_, _)
InsertDesc(x, s) ==
  IF s = <<>> THEN <<x>>
  ELSE IF Head(s).priority >= x.priority THEN <<Head(s)>> \o InsertDesc(x, Tail(s))
  ELSE <<x>> \o s

RECURSIVE SortDesc(_)
SortDesc(s) ==
  IF s = <<>> THEN <<>>
  ELSE InsertDesc(s[Len(s)], SortDesc(SubSeq(s, 1, Len(s) - 1)))

\* Mutant of register: the pattern is appended and the list is not re-sorted.
register_unsorted(reg, p) == Append(reg, p)

\* Insert x in front of every element whose priority is not higher.
RECURSIVE InsertBeforeTies(_, _)
InsertBeforeTies(x, s) ==
  IF s = <<>> THEN <<x>>
  ELSE IF Head(s).priority > x.priority THEN <<Head(s)>> \o InsertBeforeTies(x, Tail(s))
  ELSE <<x>> \o s

\* Mutant of register: sorted, but a pattern goes in front of the patterns
\* of its own priority (an ascending sort, reversed).
register_ties_reversed(reg, p) == InsertBeforeTies(p, reg)

\* PatternRegistry.register: append, then sort.
register(reg, p) == SortDesc(Append(reg, p))

\* PatternRegistry.get_handler: the first pattern in list order that matches.
NoMatch == [found |-> FALSE, name |-> "", handler |-> "", idx |-> 0]

get_handler(reg, u) ==
  IF \E i \in 1..Len(reg) : matches(reg[i], u)
  THEN LET i == CHOOSE j \in 1..Len(reg) :
                  /\ matches(reg[j], u)
                  /\ \A k \in 1..(j - 1) : ~matches(reg[k], u)
       IN [found |-> TRUE, name |-> reg[i].name, handler |-> reg[i].handler, idx |-> i]
  ELSE NoMatch

\* --------------------------------------------------------------- HTTP layer
\* What the network does to one _http_get_with_ssl_fallback call:
\*   "ok"        the first request succeeds
\*   "timeout"   httpx.TimeoutException on the first request
\*   "connect"   httpx.ConnectError without "SSL"/"CERTIFICATE" in its text
\*   "ssl_ok"    ConnectError naming SSL, the verify=False retry succeeds
\*   "ssl_fail"  ConnectError naming SSL, the verify=False retry fails too
\*   "status"    a response whose raise_for_status() raises
HttpOutcomes == {"ok", "timeout", "connect", "ssl_ok", "ssl_fail", "status"}

\* Outcomes the extract environment draws for each fetch.
Fetches == {"ok", "timeout", "ssl_ok"}

\* What one httpx.get call ends in: a response with its status code, or an
\* exception with its class and message.
Response(code) == [kind |-> "response", cls |-> "", msg |-> "", status |-> code]

HttpxError(cls, msg) == [kind |-> "error", cls |-> cls, msg |-> msg, status |-> 0]

\* Messages a ConnectError carries, and which of them contain the substrings
\* the code looks for (the test is case-sensitive).
ConnectMessages ==
  {"Connection refused", "[SSL: CERTIFICATE_VERIFY_FAILED] certificate verify failed",
   "SSL handshake failure", "CERTIFICATE has expired", "ssl: tlsv1 alert"}

HasSSL(msg) ==
  msg \in {"[SSL: CERTIFICATE_VERIFY_FAILED] certificate verify failed", "SSL handshake failure"}

HasCERTIFICATE(msg) ==
  msg \in {"[SSL: CERTIFICATE_VERIFY_FAILED] certificate verify failed", "CERTIFICATE has expired"}

HttpxResults ==
  {Response(200), Response(404), HttpxError("TimeoutException", "timed out"),
   HttpxError("ReadError", "connection reset")}
    \cup {HttpxError("ConnectError", m) : m \in ConnectMessages}

\* Mutant of is_ssl_error: every ConnectError is taken for an SSL error.
is_ssl_error_any(e) == e.cls = "ConnectError"

\* except httpx.ConnectError as e: if "SSL" in str(e) or "CERTIFICATE" in str(e)
is_ssl_error(e) == e.cls = "ConnectError" /\ (HasSSL(e.msg) \/ HasCERTIFICATE(e.msg))

\* _http_get_with_ssl_fallback: first is what httpx.get(url, **kwargs) ends
\* in, retry what httpx.get(url, verify=False, **kwargs) would end in.  The
\* requests issued (each with its verify setting) and what the caller gets:
\* the response returned or the exception raised.
http_get_with_ssl_fallback(first, retry) ==
  IF first.kind = "response"
  THEN [requests |-> <<[verify |-> TRUE]>>, result |-> first]
  ELSE IF is_ssl_error(first)
       THEN [requests |-> <<[verify |-> TRUE], [verify |-> FALSE]>>, result |-> retry]
  ELSE [requests |-> <<[verify |-> TRUE]>>, result |-> first]

\* The two httpx.get results behind each named outcome.
FirstResult(o) ==
  CASE o = "ok" -> Response(200)
    [] o = "status" -> Response(404)
    [] o = "timeout" -> HttpxError("TimeoutException", "timed out")
    [] o = "connect" -> HttpxError("ConnectError", "Connection refused")
    [] OTHER -> HttpxError("ConnectError", "SSL handshake failure")

RetryResult(o) ==
  IF o = "ssl_fail" THEN HttpxError("ConnectError", "Connection refused") ELSE Response(200)

\* _http_get_with_ssl_fallback followed by response.raise_for_status():
\* whether the caller gets a usable response and how many requests went out.
http_get(o) ==
  LET t == http_get_with_ssl_fallback(FirstResult(o), RetryResult(o))
  IN [ok |-> t.result.kind = "response" /\ t.result.status < 400,
      reqs |-> Len(t.requests)]

\* ------------------------------------------------------------ URL resolver
\* _is_lemmy_url, for a URL urlparse accepts: host (one leading "www."
\* removed) is a known instance, or "/post/" occurs in the path.
is_lemmy_url(u) ==
  LET d == IF Len(u.host) > 1 /\ Head(u.host) = "www" THEN Tail(u.host) ELSE u.host
  IN d \in LEMMY_INSTANCES \/ HasDirSeg(u, "post")

\* _is_pdf_url: url.lower().endswith('.pdf') or '/pdf/' in url.lower()
is_pdf_url(u) == (u.ext = ".pdf" /\ u.query = "") \/ HasDirSeg(u, "pdf")

\* What (\d+\.\d+) captures at the start of a path segment: its longest
\* prefix of digits, a dot and digits ("" when the segment has no such
\* prefix).  A version suffix is not part of the capture.
arxiv_id(seg) ==
  CASE seg \in ArxivIds -> seg
    [] seg = "2501.02496v2" -> "2501.02496"
    [] OTHER -> ""

\* Mutant of convert_arxiv_to_pdf: the scheme of the input is kept.
convert_arxiv_keep_scheme(u) ==
  IF /\ u.scheme \in {"http", "https"}
     /\ u.host = <<"arxiv", "org">>
     /\ Len(u.segs) >= 2
     /\ u.segs[1] = "abs"
     /\ arxiv_id(u.segs[2]) /= ""
  THEN URL(u.scheme, <<"arxiv", "org">>, <<"pdf", arxiv_id(u.segs[2])>>, ".pdf", "")
  ELSE u

\* _convert_arxiv_to_pdf: re.match(r'https?://arxiv\.org/abs/(\d+\.\d+)', url)
\* anchors at the start of the URL only; whatever follows the captured
\* identifier (version, further segments, extension, query) is dropped.
convert_arxiv_to_pdf(u) ==
  IF /\ u.scheme \in {"http", "https"}
     /\ u.host = <<"arxiv", "org">>
     /\ Len(u.segs) >= 2
     /\ u.segs[1] = "abs"
     /\ arxiv_id(u.segs[2]) /= ""
  THEN URL("https", <<"arxiv", "org">>, <<"pdf", arxiv_id(u.segs[2])>>, ".pdf", "")
  ELSE u

\* The post page of an aggregator as the HTML fallback would read it: the
\* href of a.external-link, the content of meta og:url, the first link in
\* div.post-body (NoURL where absent).
LemmyPage(a, o, b) == [anchor |-> a, og |-> o, body |-> b]

LemmyPages ==
  {LemmyPage(NoURL, NoURL, NoURL), LemmyPage(U_article, NoURL, NoURL),
   LemmyPage(NoURL, U_article, NoURL), LemmyPage(NoURL, NoURL, U_article)}

\* The answer of the read API GET /api/v3/post?id=...:
\*   fetch: the HTTP outcome; json: "bad" (response.json() raises),
\*   "nopost" (no post_view/post) or "post"; url: post["url"] (NoURL = absent).
LemmyApi(f, j, d) == [fetch |-> f, json |-> j, url |-> d]

LemmyApis ==
  {LemmyApi(f, "post", d) : f \in {"ok"}, d \in DestURLs \cup {NoURL}}
    \cup {LemmyApi("timeout", "bad", NoURL), LemmyApi("ok", "bad", NoURL),
          LemmyApi("ok", "nopost", NoURL)}

\* Whether the name `headers` is bound when line 732 evaluates it.  The
\* function only ever assigns api_headers; the module has no global headers.
LemmyHeadersBound == FALSE

\* Lines 735-767: the destination read from the fetched post page.
lemmy_html_destination(page) ==
  IF page.anchor /= NoURL THEN page.anchor
  ELSE IF page.og /= NoURL /\ page.og.ok /\ ~is_lemmy_url(page.og) THEN page.og
  ELSE IF page.body /= NoURL /\ page.body.ok /\ ~is_lemmy_url(page.body)
          /\ page.body.scheme \in {"http", "https"} THEN page.body
  ELSE NoURL

\* Lines 731-771: the HTML fallback.  Evaluating the unbound name raises
\* NameError before any request goes out; the function-wide except returns None.
lemmy_html_fallback(page, fetch) ==
  IF ~LemmyHeadersBound THEN [dest |-> NoURL, reqs |-> 0]
  ELSE LET r == http_get(fetch)
       IN IF r.ok THEN [dest |-> lemmy_html_destination(page), reqs |-> r.reqs]
          ELSE [dest |-> NoURL, reqs |-> r.reqs]

\* Lines 706-729: the destination the API branch returns (NoURL when it falls
\* through to the HTML fallback).  is_lemmy_url(post_url) raises ValueError
\* on a malformed URL; "except (ValueError, KeyError)" swallows it.
lemmy_api_destination(api) ==
  IF /\ http_get(api.fetch).ok
     /\ api.json = "post"
     /\ api.url /= NoURL
     /\ api.url.ok
     /\ ~is_lemmy_url(api.url)
  THEN api.url
  ELSE NoURL

\* _extract_lemmy_destination: the destination (NoURL = None), the requests
\* made, and the branch that decided ("noid", "api" or "html").
extract_lemmy_destination(u, api, page, fetch) ==
  IF ~HasDirSeg(u, "post") THEN [dest |-> NoURL, reqs |-> 0, via |-> "noid"]
  ELSE LET r == http_get(api.fetch)
           d == lemmy_api_destination(api)
       IN IF d /= NoURL THEN [dest |-> d, reqs |-> r.reqs, via |-> "api"]
          ELSE LET h == lemmy_html_fallback(page, fetch)
               IN [dest |-> h.dest, reqs |-> r.reqs + h.reqs, via |-> "html"]

\* The environment of one resolution: the page and its fetch matter only
\* when the API branch does not return.
LemmyEnvs(u) ==
  {[api |-> a, page |-> pg, hfetch |-> hf] :
     a \in {x \in LemmyApis : HasDirSeg(u, "post") /\ lemmy_api_destination(x) /= NoURL},
     pg \in {LemmyPage(NoURL, NoURL, NoURL)}, hf \in {"ok"}}
    \cup
  {[api |-> a, page |-> pg, hfetch |-> hf] :
     a \in {x \in LemmyApis : HasDirSeg(u, "post") /\ lemmy_api_destination(x) = NoURL},
     pg \in LemmyPages, hf \in {"ok", "timeout"}}
    \cup
  {[api |-> a, page |-> pg, hfetch |-> hf] :
     a \in {x \in LemmyApis : ~HasDirSeg(u, "post") /\ x = LemmyApi("ok", "bad", NoURL)},
     pg \in {LemmyPage(NoURL, NoURL, NoURL)}, hf \in {"ok"}}

\* ------------------------------------------------------ extraction strategies
\* The environment's stand-in for "the call raised an exception".
Raised == [k |-> "raise", len |-> 0, pad |-> 0]

\* Texts the third-party extractors and handlers hand back: nothing, exactly
\* the threshold (with whitespace around it), one more than the threshold.
TextContents == {NoneC, Str(TextThreshold, 1), Str(TextThreshold + 1, 0)}

\* One record per acceptance check a call performed: where, on what, verdict.
Check(site, c, acc) == [site |-> site, c |-> c, acc |-> acc]

\* Mutant of text_ok: the comparison lets the threshold itself through.
text_ok_ge(c) == Truthy(c) /\ Strip(c).len >= TextThreshold

\* The textual acceptance test  x and len(x.strip()) > 100 .
text_ok(c) == Truthy(c) /\ Strip(c).len > TextThreshold

\* _extract_pdf.  Environment: fetch outcome, whether the content type names
\* pdf, whether pdfplumber parses, the newline-joined page text.
PdfEnv(f, ct, parse, text) == [fetch |-> f, ctype |-> ct, parse |-> parse, text |-> text]

PdfEnvs ==
  {PdfEnv("timeout", TRUE, TRUE, NoneC), PdfEnv("ok", FALSE, TRUE, Str(PdfThreshold + 1, 0)),
   PdfEnv("ok", TRUE, FALSE, NoneC), PdfEnv("ok", TRUE, TRUE, Str(PdfThreshold - 1, 1)),
   PdfEnv("ok", TRUE, TRUE, Str(PdfThreshold, 0)), PdfEnv("ssl_ok", TRUE, TRUE, Str(PdfThreshold + 1, 2))}

extract_pdf(u, e) ==
  LET r == http_get(e.fetch)
  IN IF ~r.ok THEN [val |-> NoneC, reqs |-> r.reqs]
     ELSE IF ~e.ctype /\ ~(u.ext = ".pdf" /\ u.query = "") THEN [val |-> NoneC, reqs |-> r.reqs]
     ELSE IF ~e.parse THEN [val |-> NoneC, reqs |-> r.reqs]
     ELSE IF Strip(e.text).len < PdfThreshold THEN [val |-> NoneC, reqs |-> r.reqs]
     ELSE [val |-> Strip(e.text), reqs |-> r.reqs]

\* _extract_github.  The page as BeautifulSoup finds it: stripped text length
\* of article.markdown-body, div#readme, h1.gh-header-title, td.comment-body,
\* div.markdown-body (0 = element absent).
GithubPage(a, r, t, b, rel) == [article |-> a, readme |-> r, title |-> t, body |-> b, release |-> rel]

\* A page with none of the five elements.
NoGithubPage == GithubPage(0, 0, 0, 0, 0)

GithubEnvs ==
  {[fetch |-> "timeout", page |-> GithubPage(0, 0, 0, 0, 0)],
   [fetch |-> "ok", page |-> GithubPage(0, 0, 0, 0, 0)],
   [fetch |-> "ok", page |-> GithubPage(0, TextThreshold + 1, 0, 0, 0)],
   [fetch |-> "ok", page |-> GithubPage(TextThreshold, TextThreshold + 1, 0, 0, 0)],
   [fetch |-> "ssl_ok", page |-> GithubPage(0, 0, 40, 57, 300)],
   [fetch |-> "ssl_ok", page |-> GithubPage(TextThreshold + 1, 300, 0, 0, 0)]}

RECURSIVE SumSeq(_)
SumSeq(s) == IF s = <<>> THEN 0 ELSE Head(s) + SumSeq(Tail(s))

\* len("\n\n".join(parts)) from the parts' lengths.
JoinLen(parts) == SumSeq(parts) + 2 * (Len(parts) - 1)

\* Mutant of github_parts: div#readme is added even when
\* article.markdown-body was found.
github_parts_both(u, pg) ==
  IF Len(u.segs) < 2 THEN <<>>
  ELSE LET p1 == IF pg.article > 0 THEN <<pg.article>> ELSE <<>>
           p2 == IF pg.readme > 0 THEN Append(p1, pg.readme) ELSE p1
           p3 == IF pg.title > 0 THEN Append(p2, pg.title + 2) ELSE p2
           p4 == IF pg.body > 0 THEN Append(p3, pg.body) ELSE p3
           isRel == \E i \in 1..Len(u.segs) : u.segs[i] = "releases"
       IN IF pg.release > 0 /\ isRel THEN Append(p4, pg.release) ELSE p4

\* The stripped lengths of content_parts, in order (lines 217-248).
github_parts(u, pg) ==
  IF Len(u.segs) < 2 THEN <<>>
  ELSE LET p1 == IF pg.article > 0 THEN <<pg.article>> ELSE <<>>
           p2 == IF pg.readme > 0 /\ p1 = <<>> THEN Append(p1, pg.readme) ELSE p1
           p3 == IF pg.title > 0 THEN Append(p2, pg.title + 2) ELSE p2
           p4 == IF pg.body > 0 THEN Append(p3, pg.body) ELSE p3
           isRel == \E i \in 1..Len(u.segs) : u.segs[i] = "releases"
       IN IF pg.release > 0 /\ isRel THEN Append(p4, pg.release) ELSE p4

extract_github(u, e) ==
  LET r == http_get(e.fetch)
      parts == github_parts(u, e.page)
      combined == Str(JoinLen(parts), 0)
  IN IF ~r.ok THEN [val |-> NoneC, reqs |-> r.reqs, checks |-> {}, page |-> e.page]
     ELSE IF parts = <<>> THEN [val |-> NoneC, reqs |-> r.reqs, checks |-> {}, page |-> e.page]
     ELSE IF Strip(combined).len > TextThreshold
          THEN [val |-> Strip(combined), reqs |-> r.reqs,
                checks |-> {Check("github", combined, TRUE)}, page |-> e.page]
     ELSE [val |-> NoneC, reqs |-> r.reqs, checks |-> {Check("github", combined, FALSE)},
           page |-> e.page]

\* A registered plugin handler: it raises, or returns None, a bare str, or
\* the (content, metadata) pair of the extension contract.
PluginReturns ==
  {Raised, NoneC, Str(TextThreshold, 1), Str(TextThreshold + 1, 0),
   Tuple(TextThreshold + 1, 0)}

\* ------------------------------------------------------------ paywalled blog
U_msub == URL("https", <<"user", "medium", "com">>, <<"story">>, "", "")
U_mshort == URL("https", <<"medium", "com">>, <<"p", "abc123">>, "", "")

\* "medium.com" in url.lower()
is_medium(u) == InUrl(HostNeedle(<<"medium", "com">>), u)

\* The first HTML of a Medium page: href of link rel=canonical, content of
\* meta og:url (NoURL = absent), the articleBody of its JSON-LD block.
MediumPage(l, o, j) == [link |-> l, og |-> o, jsonld |-> j]

\* What the first fetch of a non-Medium URL stands for: nothing to resolve.
NoMediumEnv == [fetch |-> "ok", page |-> MediumPage(NoURL, NoURL, NoneC)]

\* Calls of _resolve_medium_canonical one generic strategy makes on URL u.
canonical_fetches(u) == IF is_medium(u) THEN 1 ELSE 0

MediumEnvs ==
  {[fetch |-> f, page |-> pg] :
     f \in {"ok", "timeout"},
     pg \in {MediumPage(NoURL, NoURL, NoneC), MediumPage(U_msub, NoURL, Str(TextThreshold, 1)),
             MediumPage(NoURL, U_mshort, Str(TextThreshold + 1, 0))}}

\* _resolve_medium_canonical: (canonical_url, html) and the requests made.
resolve_medium_canonical(u, e) ==
  LET r == http_get(e.fetch)
  IN IF ~r.ok THEN [canonical |-> u, html |-> FALSE, reqs |-> r.reqs]
     ELSE IF e.page.link /= NoURL THEN [canonical |-> e.page.link, html |-> TRUE, reqs |-> r.reqs]
     ELSE IF e.page.og /= NoURL THEN [canonical |-> e.page.og, html |-> TRUE, reqs |-> r.reqs]
     ELSE [canonical |-> u, html |-> TRUE, reqs |-> r.reqs]

\* _classify_medium_url
classify_medium_url(u) ==
  IF Len(u.segs) >= 2 /\ u.segs[1] = "p" THEN "short"
  ELSE IF Len(u.host) > 2 /\ SubSeq(u.host, Len(u.host) - 1, Len(u.host)) = <<"medium", "com">>
       THEN "subdomain"
  ELSE "standard"

\* Host labels that end in "medium", path segments that end in "medium.com".
EndsInMedium(label) == label \in {"medium", "notmedium"}
EndsInMediumCom(seg) == seg \in {"medium.com"}

\* The text "medium.com/" occurs at the end of the host: the host's last
\* labels read ...medium.com and a path follows.
MediumComAtHost(u) ==
  /\ Len(u.host) >= 2 /\ u.host[Len(u.host)] = "com" /\ EndsInMedium(u.host[Len(u.host) - 1])
  /\ Len(u.segs) >= 1

\* Path positions i where segment i ends in "medium.com" and a "/" follows.
MediumComInPath(u) == {i \in 1..(Len(u.segs) - 1) : EndsInMediumCom(u.segs[i])}

Least(S) == CHOOSE i \in S : \A j \in S : i <= j

InsertAfter(s, i, x) == SubSeq(s, 1, i) \o <<x>> \o SubSeq(s, i + 1, Len(s))

\* url.replace("medium.com/", "medium.com/m/", 1): the first occurrence only.
replace_first_medium(u) ==
  IF MediumComAtHost(u) THEN [u EXCEPT !.segs = InsertAfter(@, 0, "m")]
  ELSE IF MediumComInPath(u) /= {}
       THEN [u EXCEPT !.segs = InsertAfter(@, Least(MediumComInPath(u)), "m")]
  ELSE u

\* A variant that rewrites whatever the classification.
prepare_medium_url_any_type(u, t) == replace_first_medium(u)

\* _prepare_medium_url
prepare_medium_url(u, t) ==
  IF t = "standard" THEN replace_first_medium(u) ELSE u

\* A variant that never finds an article body.
extract_from_json_ld_never(body) == [val |-> NoneC, checks |-> {Check("jsonld", body, FALSE)}]

\* _extract_from_json_ld on a page whose JSON-LD articleBody is body.
extract_from_json_ld(body) ==
  IF text_ok(body) THEN [val |-> Strip(body), checks |-> {Check("jsonld", body, TRUE)}]
  ELSE [val |-> NoneC, checks |-> {Check("jsonld", body, FALSE)}]

\* ------------------------------------------------------------ generic chain
\* A page fetch: an HTTP outcome, or "empty" for a 200 with an empty body.
PageFetches == {"ok", "empty", "timeout"}

page_get(o) ==
  IF o = "empty" THEN [ok |-> TRUE, reqs |-> 1, html |-> FALSE]
  ELSE LET r == http_get(o) IN [ok |-> r.ok, reqs |-> r.reqs, html |-> r.ok]

\* str(response.url): the fetched URL, or where a redirect ended.
resp_url(u, redir) == IF redir THEN U_final ELSE u

Result(v, f, n, cs) == [val |-> v, final |-> f, reqs |-> n, checks |-> cs]

\* Lines 833-855 and the except clauses: sanitize, run the extractor on the
\* HTML (none when the body is empty), validate.
traf_finish(u, html, text, final, n, cs) ==
  LET content == IF html THEN text ELSE NoneC
  IN IF content = Raised THEN Result(NoneC, u, n, cs)
     ELSE IF text_ok(content)
          THEN Result(Strip(content), final, n, cs \cup {Check("primary", content, TRUE)})
     ELSE Result(NoneC, final, n, cs \cup {Check("primary", content, FALSE)})

\* Lines 825-831: fetch when there is no HTML yet.
traf_ensure_html(u, fetch_url, html, final, medium, e, n, cs) ==
  IF html THEN traf_finish(u, html, e.text, final, n, cs)
  ELSE LET r2 == page_get(e.f2)
       IN IF ~r2.ok THEN Result(NoneC, u, n + r2.reqs, cs)
          ELSE traf_finish(u, r2.html, e.text,
                           IF medium THEN final ELSE resp_url(fetch_url, e.redir),
                           n + r2.reqs, cs)

\* _extract_with_trafilatura.  Environment e: canon (Medium first fetch),
\* f1, f2 (page fetches), redir, text (what trafilatura.extract returns).
extract_with_trafilatura(u, e) ==
  IF is_medium(u)
  THEN LET cr == resolve_medium_canonical(u, e.canon)
           t == classify_medium_url(cr.canonical)
           fetch_url == prepare_medium_url(cr.canonical, t)
           jl == extract_from_json_ld(e.canon.page.jsonld)
       IN IF cr.html /\ jl.val /= NoneC
          THEN Result(jl.val, cr.canonical, cr.reqs, jl.checks)
          ELSE LET cs == IF cr.html THEN jl.checks ELSE {}
               IN IF fetch_url /= cr.canonical /\ t = "standard"
                  THEN LET r1 == page_get(e.f1)
                       IN IF ~r1.ok THEN Result(NoneC, u, cr.reqs + r1.reqs, cs)
                          ELSE traf_ensure_html(u, fetch_url, r1.html, cr.canonical, TRUE,
                                                e, cr.reqs + r1.reqs, cs)
                  ELSE traf_ensure_html(u, fetch_url, cr.html, cr.canonical, TRUE, e,
                                        cr.reqs, cs)
  ELSE LET r1 == page_get(e.f1)
       IN IF ~r1.ok THEN Result(NoneC, u, r1.reqs, {})
          ELSE traf_ensure_html(u, u, r1.html, resp_url(u, e.redir), FALSE, e, r1.reqs, {})

\* Lines 950-984: parse with newspaper3k, downloading itself when there is no
\* pre-fetched HTML (e.dl tells whether that download works), validate.
news_finish(u, fetch_url, html, final, medium, e, n) ==
  LET hasdoc == html \/ e.dl
      n2 == IF html THEN n ELSE n + 1
      final2 == IF ~html /\ ~medium THEN fetch_url ELSE final
  IN IF ~hasdoc \/ e.text = Raised THEN Result(NoneC, u, n2, {})
     ELSE IF text_ok(e.text)
          THEN Result(Strip(e.text), final2, n2, {Check("secondary", e.text, TRUE)})
     ELSE Result(NoneC, final2, n2, {Check("secondary", e.text, FALSE)})

\* Lines 938-948: pre-fetch when there is no HTML; a failure is swallowed.
news_prefetch(u, fetch_url, html, final, medium, e, n) ==
  IF html THEN news_finish(u, fetch_url, TRUE, final, medium, e, n)
  ELSE LET r == page_get(e.f2)
       IN IF r.ok /\ r.html
          THEN news_finish(u, fetch_url, TRUE, resp_url(fetch_url, e.redir), medium, e, n + r.reqs)
          ELSE IF r.ok THEN news_finish(u, fetch_url, FALSE, resp_url(fetch_url, e.redir), medium, e, n + r.reqs)
          ELSE news_finish(u, fetch_url, FALSE, final, medium, e, n + r.reqs)

\* _extract_with_newspaper.  Environment e: canon, f1 (Medium /m/ fetch),
\* f2 (pre-fetch), dl, redir, text (article.text after parse, or Raised).
extract_with_newspaper(u, e) ==
  IF is_medium(u)
  THEN LET cr == resolve_medium_canonical(u, e.canon)
           t == classify_medium_url(cr.canonical)
           fetch_url == prepare_medium_url(cr.canonical, t)
       IN IF cr.html THEN news_prefetch(u, fetch_url, TRUE, cr.canonical, TRUE, e, cr.reqs)
          ELSE IF fetch_url /= cr.canonical /\ t = "standard"
               THEN LET r1 == page_get(e.f1)
                    IN IF ~r1.ok THEN Result(NoneC, u, cr.reqs + r1.reqs, {})
                       ELSE news_prefetch(u, fetch_url, r1.html, resp_url(fetch_url, e.redir),
                                          TRUE, e, cr.reqs + r1.reqs)
          ELSE news_prefetch(u, fetch_url, FALSE, cr.canonical, TRUE, e, cr.reqs)
  ELSE news_prefetch(u, u, FALSE, u, FALSE, e, 0)

\* ------------------------------------------------------------------ state
VARIABLES
  failed_urls,   \* ContentExtractor.failed_urls
  metrics,       \* ContentExtractor.metrics
  registry,      \* ContentExtractor.registry.patterns
  calls,         \* number of extract calls made so far
  regs,          \* number of plugin register calls made so far
  returned_none, \* history: the URLs some extract call returned no content for
  last,          \* what the most recent extract call did and returned
  snapshot,      \* the dict a get_metrics() call handed to its caller
  probe,         \* a helper applied on its own: its name, input and result
  ingest,        \* IngestStep.run and the articles table
  limiter,       \* a RateLimiter shared by threads, and the clock
  workers        \* threads calling extract on the one ContentExtractor

vars == <<failed_urls, metrics, registry, calls, regs, returned_none, last, snapshot, probe,
         ingest, limiter, workers>>

\* self.metrics as built by __init__.  has_pe tells whether the key
\* "pattern_extractions" is present, pe is the dict stored under it.
EmptyDict == [n \in {} |-> 0]

InitMetrics ==
  [total_attempts |-> 0, trafilatura_success |-> 0, newspaper_success |-> 0,
   failures |-> 0, cached_failures |-> 0, has_pe |-> TRUE, pe |-> EmptyDict]

\* self.metrics as rebuilt by reset_metrics: no "pattern_extractions" key.
ResetValue ==
  [total_attempts |-> 0, trafilatura_success |-> 0, newspaper_success |-> 0,
   failures |-> 0, cached_failures |-> 0, has_pe |-> FALSE, pe |-> EmptyDict]

\* d[name] = d.get(name, 0) + 1  (lines 310-312)
count_pattern(pe, name) ==
  IF name \in DOMAIN pe THEN [pe EXCEPT ![name] = @ + 1]
  ELSE [n \in DOMAIN pe \cup {name} |-> IF n = name THEN 1 ELSE pe[n]]

\* url in self.failed_urls  (line 279)
is_cached(failed, u) == u \in failed

\* Mutant of cache_failure: the failure is not remembered.
cache_failure_dropped(failed, original_url, url) == failed

\* Mutant of cache_failure: the resolved URL is cached, not the input URL.
cache_failure_resolved(failed, original_url, url) == failed \cup {url}

\* self.failed_urls.add(original_url)  (lines 291, 329, 352)
cache_failure(failed, original_url, url) == failed \cup {original_url}

\* Mutant of lemmy_resolved: an unresolved post is extracted as a page.
lemmy_resolved_always(real_url) == TRUE

\* if real_url:  (line 287)
lemmy_resolved(real_url) == real_url /= NoURL

\* Mutant of direct_return_url: the input URL is returned with the content.
direct_return_original(original_url, url) == original_url

\* The URL returned with content by the pattern and document branches
\* (lines 313, 327).
direct_return_url(original_url, url) == url

\* The URL returned with content by the generic chain (lines 342, 349).
chain_return_url(url, final_url, was_lemmy) == IF was_lemmy THEN url ELSE final_url

\* No get_metrics() result is held by anyone.  value is what the returned
\* dict holds now (without its derived success_rate entry); orig is what it
\* held when it was returned, with the holder's own writes applied; shared
\* tells whether the dict stored under "pattern_extractions" in it is the
\* very object the extractor's own metrics hold ({**self.metrics, ...}
\* copies one level); leaked tells whether a write of the holder changed
\* self.metrics.
NoSnapshot ==
  [taken |-> FALSE, value |-> InitMetrics, orig |-> InitMetrics, shared |-> FALSE,
   leaked |-> FALSE]

\* The effect on a held snapshot of extract's in-place update of the
\* pattern_extractions dict (lines 310-312), m being the metrics afterwards.
alias_update(snap, m) ==
  IF snap.taken /\ snap.shared THEN [snap EXCEPT !.value.pe = m.pe] ELSE snap

\* No helper has been applied on its own.
NoProbe == [fn |-> "", arg |-> <<>>, out |-> <<>>]

NoLemmy == [tried |-> FALSE, api |-> LemmyApi("ok", "bad", NoURL),
            page |-> LemmyPage(NoURL, NoURL, NoURL), hfetch |-> "ok",
            via |-> "", dest |-> NoURL]

NoCall ==
  [called |-> FALSE, url |-> NoURL, content |-> NoneC, resolved |-> NoURL,
   raised |-> FALSE, net |-> 0, steps |-> <<>>, checks |-> {}, disp |-> NoURL,
   lemmy |-> NoLemmy, arxiv |-> FALSE, pname |-> "", hret |-> NoneC,
   gh |-> NoGithubPage, nets |-> <<>>, canons |-> 0, menv |-> NoMediumEnv,
   before |-> [failed |-> {}, metrics |-> InitMetrics], prior_none |-> FALSE]

\* The running context of one extract call.
Ctx(u) ==
  [orig |-> u, url |-> u, was_lemmy |-> FALSE, net |-> 0, steps |-> <<>>, checks |-> {},
   lemmy |-> NoLemmy, arxiv |-> FALSE, pname |-> "", hret |-> NoneC,
   gh |-> NoGithubPage, nets |-> <<>>, canons |-> 0, menv |-> NoMediumEnv, m |-> metrics]

\* ------------------------------------------------------- rate limiter state
\* RateLimiter(calls_per_minute=30), times in whole seconds.
CallsPerMinute == 30
SecondsPerMinute == 60
min_interval == SecondsPerMinute \div CallsPerMinute

\* last_call_time is None
NoTime == -1

\* self.lock held by nobody
NoThread == 0

Threads == 1..NumThreads

\* The limiter after __init__, the clock, and per thread its position in
\* wait_if_needed, its locals and its number of calls; grants lists the
\* values assigned to last_call_time with the value returned, the calling
\* thread and the number of resets before.
NewLimiter ==
  [last_call_time |-> NoTime, lock |-> NoThread, now |-> 0,
   pc |-> [t \in Threads |-> "idle"],
   current_time |-> [t \in Threads |-> 0],
   wait_time |-> [t \in Threads |-> 0],
   waits |-> [t \in Threads |-> 0],
   grants |-> <<>>, resets |-> 0]

\* ---------------------------------------------------------- threads' state
\* The counters of self.metrics that extract increments.
Counters ==
  {"total_attempts", "trafilatura_success", "newspaper_success", "failures", "cached_failures"}

\* A thread outside extract.  Inside, pc is the statement it is at, fld the
\* counter of the `+= 1` it is executing, tmp the value it loaded, next the
\* statement after the increment.
IdleThread ==
  [pc |-> "idle", url |-> NoURL, fld |-> "", tmp |-> 0, next |-> "", ret |-> NoneC,
   ncalls |-> 0]

\* Threads sharing one ContentExtractor; performed counts the `+= 1`
\* statements completed per counter, raced tells whether a thread loaded a
\* counter that another thread had loaded and not yet stored.
NoWorkers ==
  [th |-> [t \in Threads |-> IdleThread],
   performed |-> [f \in Counters |-> 0],
   raced |-> [f \in Counters |-> FALSE]]

\* ------------------------------------------------------------ ingest state
\* len(entry.content) below which IngestStep.run extracts the entry's URL.
IngestMinContent == 200

\* A FeedEntry (title, summary, dates, author and tags left out: run and
\* _store_article copy them unread).
FeedEntry(sid, u, c) == [source_id |-> sid, url |-> u, content |-> c]

\* An Article row.
Article(sid, u, c) == [source_id |-> sid, url |-> u, content |-> c]

\* IngestStep.run and the articles table: pc is the position of run, entries
\* is all_entries, found the entries as the sources delivered them, ext what
\* extract did for each entry handled so far ("skipped" when not called),
\* rets what _store_article returned for each entry handled so far, store
\* the rows of the table in insertion order, st the most recent
\* _store_article call.
NoId == 0

NoStoreCall ==
  [called |-> FALSE, entry |-> FeedEntry("", NoURL, NoneC), ret |-> NoId, before |-> <<>>,
   after |-> <<>>]

NoIngest ==
  [pc |-> "idle", force |-> FALSE, enabled |-> FALSE, entries |-> <<>>, found |-> <<>>,
   ext |-> <<>>, rets |-> <<>>, store |-> <<>>, st |-> NoStoreCall, runs |-> 0, stores |-> 0]

Init ==
  /\ failed_urls = {}
  /\ metrics = InitMetrics
  /\ registry = register(register(<<>>, PdfPattern), GithubPattern)
  /\ calls = 0
  /\ regs = 0
  /\ returned_none = {}
  /\ last = NoCall
  /\ snapshot = NoSnapshot
  /\ probe = NoProbe
  /\ ingest = NoIngest
  /\ limiter = NewLimiter
  /\ workers = NoWorkers

\* ---------------------------------------------------------------- extract
\* The call ends: returns (content, resolved), or raises.
Done(c, content, resolved, raised, failed2, m2) ==
  /\ failed_urls' = failed2
  /\ metrics' = m2
  /\ last' = [called |-> TRUE, url |-> c.orig, content |-> content, resolved |-> resolved,
              raised |-> raised, net |-> c.net, steps |-> c.steps, checks |-> c.checks,
              disp |-> c.url, lemmy |-> c.lemmy, arxiv |-> c.arxiv, pname |-> c.pname,
              hret |-> c.hret, gh |-> c.gh, nets |-> c.nets, canons |-> c.canons,
              menv |-> c.menv,
              before |-> [failed |-> failed_urls, metrics |-> metrics],
              prior_none |-> c.orig \in returned_none]
  /\ returned_none' = IF ~raised /\ content = NoneC THEN returned_none \cup {c.orig}
                      ELSE returned_none
  /\ calls' = calls + 1
  /\ snapshot' = alias_update(snapshot, m2)
  /\ UNCHANGED <<registry, regs, probe, ingest, limiter, workers>>

Inc(m, f) == [m EXCEPT ![f] = @ + 1]

\* A variant of the cached branch that also counts the call as an attempt.
count_cached_failure_as_attempt(m) == Inc(Inc(m, "cached_failures"), "total_attempts")

\* self.metrics["cached_failures"] += 1
count_cached_failure(m) == Inc(m, "cached_failures")

\* What the environment may do to each strategy on URL u.
TrafEnvs(u) ==
  [canon : IF is_medium(u) THEN MediumEnvs ELSE {NoMediumEnv},
   f1 : PageFetches, f2 : PageFetches, redir : BOOLEAN,
   text : TextContents \cup {Raised}]

NewsEnvs(u) ==
  [canon : IF is_medium(u) THEN MediumEnvs ELSE {NoMediumEnv},
   f1 : IF is_medium(u) THEN {"ok", "timeout"} ELSE {"ok"},
   f2 : PageFetches, dl : BOOLEAN, redir : BOOLEAN,
   text : TextContents \cup {Raised}]

\* extract reads the second component of a strategy's pair only when the
\* first is content.
Used(r) == IF r.val = NoneC THEN [r EXCEPT !.final = NoURL] ELSE r

\* Lines 335-355: primary extractor, secondary extractor, exhaustion.
GenericChain(c) ==
  LET m1 == Inc(c.m, "total_attempts")
  IN \E t \in {[r |-> Used(extract_with_trafilatura(c.url, e)), canon |-> e.canon] :
                  e \in TrafEnvs(c.url)} :
       LET r == t.r
           c1 == [c EXCEPT !.net = @ + r.reqs, !.steps = Append(@, "primary"),
                           !.checks = @ \cup r.checks, !.nets = Append(@, r.reqs),
                           !.canons = @ + canonical_fetches(c.url), !.menv = t.canon]
       IN IF r.val /= NoneC
          THEN Done(c1, r.val, chain_return_url(c.url, r.final, c.was_lemmy), FALSE,
                    failed_urls, Inc(m1, "trafilatura_success"))
          ELSE \E q \in {Used(extract_with_newspaper(c.url, e)) : e \in NewsEnvs(c.url)} :
                 LET c2 == [c1 EXCEPT !.net = @ + q.reqs, !.steps = Append(@, "secondary"),
                                      !.checks = @ \cup q.checks, !.nets = Append(@, q.reqs),
                                      !.canons = @ + canonical_fetches(c.url)]
                 IN IF q.val /= NoneC
                    THEN Done(c2, q.val, chain_return_url(c.url, q.final, c.was_lemmy),
                              FALSE, failed_urls, Inc(m1, "newspaper_success"))
                    ELSE Done(c2, NoneC, c.orig, FALSE,
                              cache_failure(failed_urls, c.orig, c.url), Inc(m1, "failures"))

\* Lines 320-333: the document check; terminal for the URLs it recognises.
DocumentCheck(c) ==
  IF is_pdf_url(c.url)
  THEN \E r \in {extract_pdf(c.url, e) : e \in PdfEnvs} :
         LET c1 == [c EXCEPT !.net = @ + r.reqs, !.steps = Append(@, "doc"),
                             !.nets = Append(@, r.reqs)]
         IN IF Truthy(r.val)
            THEN Done(c1, r.val, direct_return_url(c.orig, c.url), FALSE, failed_urls,
                      Inc(Inc(c.m, "total_attempts"), "trafilatura_success"))
            ELSE Done(c1, NoneC, c.orig, FALSE, cache_failure(failed_urls, c.orig, c.url),
                      Inc(Inc(c.m, "total_attempts"), "failures"))
  ELSE GenericChain(c)

\* What the matched pattern's handler does on URL u: its return value (or
\* Raised), the requests it made and the checks it ran itself.
HandlerRuns(h, u) ==
  CASE h = "pdf_pattern" ->
         {[val |-> r.val, reqs |-> r.reqs, checks |-> {}, page |-> NoGithubPage] :
            r \in {extract_pdf(u, e) : e \in PdfEnvs}}
    [] h = "github" -> {extract_github(u, e) : e \in GithubEnvs}
    [] OTHER -> {[val |-> v, reqs |-> 1, checks |-> {}, page |-> NoGithubPage] :
                   v \in PluginReturns}

\* Lines 298-318: dispatch to the pattern get_handler selects.
Dispatch(c) ==
  LET pm == get_handler(registry, c.url)
  IN IF ~pm.found THEN DocumentCheck(c)
     ELSE \E r \in HandlerRuns(pm.handler, c.url) :
            LET c1 == [c EXCEPT !.net = @ + r.reqs, !.steps = Append(@, "handler"),
                                !.checks = @ \cup r.checks, !.pname = pm.name,
                                !.hret = r.val, !.gh = r.page, !.nets = Append(@, r.reqs)]
            IN IF r.val = Raised \/ r.val.k = "tuple"
               \* the handler raised, or content.strip() raised AttributeError
               THEN DocumentCheck(c1)
               ELSE IF ~Truthy(r.val) THEN DocumentCheck(c1)
               ELSE LET acc == text_ok(r.val)
                        c2 == [c1 EXCEPT !.checks = @ \cup {Check("dispatch", r.val, acc)}]
                        m2 == Inc(Inc(c.m, "total_attempts"), "trafilatura_success")
                    IN IF ~acc THEN DocumentCheck(c2)
                       ELSE IF ~c.m.has_pe
                            \* KeyError on metrics["pattern_extractions"], swallowed
                            \* by the except clause after the two increments
                            THEN DocumentCheck([c2 EXCEPT !.m = m2])
                       ELSE Done(c2, r.val, direct_return_url(c.orig, c.url), FALSE,
                                 failed_urls,
                                 [m2 EXCEPT !.pe = count_pattern(@, pm.name)])

\* Lines 283-296: aggregator resolution, then the preprint rewrite.
Resolve(c) ==
  IF is_lemmy_url(c.orig)
  THEN \E e \in LemmyEnvs(c.orig) :
         LET r == extract_lemmy_destination(c.orig, e.api, e.page, e.hfetch)
             c1 == [c EXCEPT !.was_lemmy = TRUE, !.net = @ + r.reqs,
                             !.steps = Append(@, "lemmy"), !.nets = Append(@, r.reqs),
                             !.lemmy = [tried |-> TRUE, api |-> e.api, page |-> e.page,
                                        hfetch |-> e.hfetch, via |-> r.via, dest |-> r.dest]]
         IN IF lemmy_resolved(r.dest)
            THEN LET d == IF r.dest = NoURL THEN c.orig ELSE r.dest
                     url2 == convert_arxiv_to_pdf(d)
                 IN Dispatch([c1 EXCEPT !.url = url2, !.arxiv = (url2 /= d)])
            ELSE Done(c1, NoneC, c.orig, FALSE, cache_failure(failed_urls, c.orig, c.url),
                      Inc(c.m, "failures"))
  ELSE LET url2 == convert_arxiv_to_pdf(c.orig)
       IN Dispatch([c EXCEPT !.url = url2, !.arxiv = (url2 /= c.orig)])

\* ContentExtractor.extract(u)
Extract(u) ==
  /\ calls < MaxCalls
  /\ ~last.called
  /\ LET c == Ctx(u)
     IN IF is_cached(failed_urls, u)
        THEN Done(c, NoneC, u, FALSE, failed_urls, count_cached_failure(metrics))
        ELSE IF ~u.ok
             \* urlparse raises ValueError inside _is_lemmy_url, outside any try
             THEN Done(c, NoneC, NoURL, TRUE, failed_urls, metrics)
        ELSE Resolve(c)

\* ContentExtractor.reset_metrics()
ResetMetrics ==
  /\ ~last.called
  /\ metrics /= ResetValue
  /\ metrics' = ResetValue
  /\ snapshot' = [snapshot EXCEPT !.shared = FALSE]
  /\ UNCHANGED <<failed_urls, registry, calls, regs, returned_none, last, probe, ingest,
                 limiter, workers>>

\* A plugin's register_extractors calls registry.register(p).
Register(p) ==
  /\ regs < MaxRegs
  /\ calls = 0
  /\ registry' = register(registry, p)
  /\ regs' = regs + 1
  /\ UNCHANGED <<failed_urls, metrics, calls, returned_none, last, snapshot, probe, ingest,
                 limiter, workers>>

\* The caller (IngestStep.run) has taken the pair extract returned; the call
\* leaves nothing behind but the extractor's own state.
TakeResult ==
  /\ last.called
  /\ last' = NoCall
  /\ UNCHANGED <<failed_urls, metrics, registry, calls, regs, returned_none, snapshot, probe,
                 ingest, limiter, workers>>

Next ==
  \/ \E u \in InputURLs : Extract(u)
  \/ TakeResult
  \/ ResetMetrics
  \/ \E p \in PluginPatterns : Register(p)

Spec == Init /\ [][Next]_vars

\* ------------------------------------------------- metrics and their readers
\* ContentExtractor.get_metrics(): a new dict with the entries of
\* self.metrics, handed to the caller.
GetMetrics ==
  /\ ~last.called
  /\ snapshot' = [taken |-> TRUE, value |-> metrics, orig |-> metrics,
                  shared |-> metrics.has_pe, leaked |-> FALSE]
  /\ UNCHANGED <<failed_urls, metrics, registry, calls, regs, returned_none, last, probe,
                 ingest, limiter, workers>>

\* The holder of a get_metrics() result overwrites one of its counters:
\* m["total_attempts"] = -1.
MutateCounter ==
  /\ snapshot.taken
  /\ snapshot.value.total_attempts /= -1
  /\ snapshot' = [snapshot EXCEPT !.value.total_attempts = -1, !.orig.total_attempts = -1]
  /\ UNCHANGED <<failed_urls, metrics, registry, calls, regs, returned_none, last, probe,
                 ingest, limiter, workers>>

\* The holder writes into the map of the result:
\* m["pattern_extractions"]["mine"] = 1.
MutateMap ==
  /\ snapshot.taken
  /\ snapshot.value.has_pe
  /\ "mine" \notin DOMAIN snapshot.value.pe
  /\ LET pe2 == count_pattern(snapshot.value.pe, "mine")
     IN /\ snapshot' = [snapshot EXCEPT !.value.pe = pe2, !.orig.pe = pe2,
                                        !.leaked = @ \/ snapshot.shared]
        /\ metrics' = IF snapshot.shared THEN [metrics EXCEPT !.pe = pe2] ELSE metrics
  /\ UNCHANGED <<failed_urls, registry, calls, regs, returned_none, last, probe, ingest,
                 limiter, workers>>

\* URLs extracted while a get_metrics() result is held.
MetricsURLs == {U_github, U_pdf, U_article}

NextMetrics ==
  \/ \E u \in MetricsURLs : Extract(u)
  \/ TakeResult
  \/ ResetMetrics
  \/ GetMetrics
  \/ MutateCounter
  \/ MutateMap

SpecMetrics == Init /\ [][NextMetrics]_vars

\* ------------------------------------------------- helpers on their own
\* The private helpers of ContentExtractor and PatternRegistry called
\* directly, as the unit tests call them, on a freshly built extractor.
Applied(fn, arg, out) == [fn |-> fn, arg |-> arg, out |-> out]

\* A helper applied on its own touches no extractor state.
HelperFrame ==
  UNCHANGED <<failed_urls, metrics, registry, calls, regs, returned_none, last, snapshot,
              ingest, limiter, workers>>

\* Documents handed to _extract_pdf: every fetch outcome, with and without a
\* pdf content type, parsable or not, page text around the threshold.
PdfTexts ==
  {NoneC, Str(PdfThreshold - 1, 1), Str(PdfThreshold, 0), Str(PdfThreshold, 3),
   Str(PdfThreshold + 1, 0)}

PdfProbeEnvs ==
  {PdfEnv(f, ct, pr, t) : f \in Fetches, ct \in BOOLEAN, pr \in BOOLEAN, t \in PdfTexts}

\* extractor._extract_pdf(u)
ProbePdf(u, e) ==
  /\ probe' = Applied("_extract_pdf", <<u, e>>, extract_pdf(u, e))
  /\ HelperFrame

\* extractor._http_get_with_ssl_fallback(url) against a server whose first
\* and (if asked) second answers are first and retry.
ProbeHttp(first, retry) ==
  /\ probe' = Applied("_http_get_with_ssl_fallback", <<first, retry>>,
                      http_get_with_ssl_fallback(first, retry))
  /\ HelperFrame

\* URLs handed to _convert_arxiv_to_pdf: abstract pages (plain, versioned,
\* old-style identifier), converted document URLs and unrelated URLs, on
\* the preprint host and off it.
ArxivProbeURLs ==
  {URL(sch, h, p, e, q) :
     sch \in {"http", "https", "ftp"},
     h \in {<<"arxiv", "org">>, <<"www", "arxiv", "org">>, <<"example", "com">>},
     p \in {<<"abs", "2501.02496">>, <<"abs", "2501.02496v2">>, <<"abs", "1706.03762", "extra">>,
            <<"abs", "hep-th", "9901001">>, <<"pdf", "2501.02496">>, <<"abs">>,
            <<"news", "a1">>},
     e \in {"", ".pdf"}, q \in {"", "context=cs"}}

\* extractor._convert_arxiv_to_pdf(u), and the same applied to its result.
ProbeArxiv(u) ==
  /\ probe' = Applied("_convert_arxiv_to_pdf", <<u>>,
                      [once |-> convert_arxiv_to_pdf(u),
                       twice |-> convert_arxiv_to_pdf(convert_arxiv_to_pdf(u))])
  /\ HelperFrame

\* Patterns handed to PatternRegistry.register on its own: the plugin
\* patterns and one sharing the priority of the built-in document pattern.
RegisterProbePatterns ==
  PluginPatterns \cup {Pattern("plug_ten", <<HostNeedle(<<"example", "com">>)>>, "plugin", PdfPriority)}

\* registry.register(p) on the registry as the last register call left it
\* (as _register_patterns left it, for the first one).  arg is the sequence
\* of all register calls made on that registry, out its patterns list.
ProbeRegister(p) ==
  LET log == IF probe.fn = "register" THEN probe.arg ELSE <<PdfPattern, GithubPattern>>
      reg == IF probe.fn = "register" THEN probe.out ELSE registry
  IN /\ Len(log) < 2 + MaxSeq
     /\ probe' = Applied("register", Append(log, p), register(reg, p))
     /\ HelperFrame

\* Canonical URLs a Medium page can name: medium.com itself, a user
\* subdomain, a publication's own domain, a look-alike host.
MediumCanonicals ==
  {URL("https", h, p, "", "") :
     h \in {<<"medium", "com">>, <<"user", "medium", "com">>, <<"blog", "example", "com">>,
            <<"notmedium", "com">>},
     p \in {<<>>, <<"@user", "story">>, <<"story">>, <<"p", "abc123">>, <<"p">>,
            <<"r", "medium.com", "x">>}}

\* url_type = _classify_medium_url(canonical_url);
\* fetch_url = _prepare_medium_url(canonical_url, url_type)
ProbeMedium(u) ==
  LET t == classify_medium_url(u)
  IN /\ probe' = Applied("_prepare_medium_url", <<u>>,
                         [type |-> t, fetch |-> prepare_medium_url(u, t)])
     /\ HelperFrame

NextHelpers ==
  \/ \E u \in MediumCanonicals : ProbeMedium(u)
  \/ \E p \in RegisterProbePatterns : ProbeRegister(p)
  \/ \E u \in ArxivProbeURLs : ProbeArxiv(u)
  \/ \E first \in HttpxResults, retry \in HttpxResults : ProbeHttp(first, retry)
  \/ \E u \in {U_pdf, U_pdfq, U_pdfdir}, e \in PdfProbeEnvs : ProbePdf(u, e)

SpecHelpers == Init /\ [][NextHelpers]_vars

\* ------------------------------------------------------------------ ingest
\* Entries the feed sources deliver: two share a source id and differ in URL
\* and content; contents absent, empty, just below and at the length under
\* which run extracts.
FeedEntries ==
  {FeedEntry("rss:a", U_article, NoneC),
   FeedEntry("rss:a", U_post, Str(IngestMinContent, 0)),
   FeedEntry("rss:b", U_post, Str(IngestMinContent - 1, 0)),
   FeedEntry("rss:b", U_lemmy, Str(0, 0))}

EntryLists ==
  UNION {[1..n -> FeedEntries] : n \in 0..MaxEntries}

\* What extractor.extract(u) hands to run: it raises, or returns
\* (None, u), or content with u or with another resolved URL.
ExtractReturn(c, r) == [called |-> TRUE, raised |-> FALSE, content |-> c, resolved |-> r]

NotExtracted == [called |-> FALSE, raised |-> FALSE, content |-> NoneC, resolved |-> NoURL]

ExtractReturns(u) ==
  {[called |-> TRUE, raised |-> TRUE, content |-> NoneC, resolved |-> NoURL],
   ExtractReturn(NoneC, u),
   ExtractReturn(Str(TextThreshold + 1, 0), u),
   ExtractReturn(Str(TextThreshold + 1, 0), U_final)}

\* Line 108: force_extraction or not entry.content or len(entry.content) < 200
needs_extraction(entry, force) ==
  force \/ ~Truthy(entry.content) \/ RawLen(entry.content) < IngestMinContent

\* A variant that takes the content and keeps the discovered URL.
apply_extraction_keep_url(entry, r) ==
  IF Truthy(r.content) THEN [entry EXCEPT !.content = r.content] ELSE entry

\* Lines 110-112
apply_extraction(entry, r) ==
  IF Truthy(r.content) THEN [entry EXCEPT !.content = r.content, !.url = r.resolved]
  ELSE entry

\* A variant that looks the article up by URL.
store_article_by_url(store, entry) ==
  IF \E i \in 1..Len(store) : store[i].url = entry.url
  THEN [ret |-> NoId, store |-> store]
  ELSE [ret |-> Len(store) + 1,
        store |-> Append(store, Article(entry.source_id, entry.url,
                                        IF Truthy(entry.content) THEN entry.content
                                        ELSE Str(0, 0)))]

\* IngestStep._store_article: None (NoId) for a source_id already stored,
\* else the id of the new row, whose content is entry.content or "".
store_article(store, entry) ==
  IF \E i \in 1..Len(store) : store[i].source_id = entry.source_id
  THEN [ret |-> NoId, store |-> store]
  ELSE [ret |-> Len(store) + 1,
        store |-> Append(store, Article(entry.source_id, entry.url,
                                        IF Truthy(entry.content) THEN entry.content
                                        ELSE Str(0, 0)))]

StoreCall(entry, r) ==
  [called |-> TRUE, entry |-> entry, ret |-> r.ret, before |-> ingest.store, after |-> r.store]

IngestFrame ==
  UNCHANGED <<failed_urls, metrics, registry, calls, regs, returned_none, last, snapshot, probe,
              limiter, workers>>

\* step._store_article(session, e) called directly
StoreArticle(e) ==
  /\ ingest.pc = "idle"
  /\ ingest.stores < MaxStores
  /\ LET r == store_article(ingest.store, e)
     IN ingest' = [ingest EXCEPT !.store = r.store, !.st = StoreCall(e, r), !.stores = @ + 1]
  /\ IngestFrame

\* run, lines 50-96: the sources deliver es.
RunFetch(es, force, enabled) ==
  /\ ingest.pc = "idle"
  /\ ingest.runs < MaxRuns
  /\ ingest' = [ingest EXCEPT !.pc = "extract", !.force = force, !.enabled = enabled,
                              !.entries = es, !.found = es, !.ext = <<>>, !.rets = <<>>]
  /\ IngestFrame

\* run, lines 106-112: one pass of the extraction loop.  An exception of
\* extract is not caught and ends run.
RunExtract ==
  /\ ingest.pc = "extract"
  /\ ingest.enabled
  /\ Len(ingest.ext) < Len(ingest.entries)
  /\ LET i == Len(ingest.ext) + 1
         entry == ingest.entries[i]
     IN IF needs_extraction(entry, ingest.force)
        THEN \E r \in ExtractReturns(entry.url) :
               IF r.raised
               THEN ingest' = [ingest EXCEPT !.pc = "raised", !.ext = Append(@, r)]
               ELSE ingest' = [ingest EXCEPT !.entries[i] = apply_extraction(entry, r),
                                             !.ext = Append(@, r)]
        ELSE ingest' = [ingest EXCEPT !.ext = Append(@, NotExtracted)]
  /\ IngestFrame

\* run, lines 99 and 114-129: no extraction asked for, or the loop is over.
RunExtracted ==
  /\ ingest.pc = "extract"
  /\ ~ingest.enabled \/ Len(ingest.ext) = Len(ingest.entries)
  /\ ingest' = [ingest EXCEPT !.pc = "store"]
  /\ IngestFrame

\* run, lines 131-137: one pass of the storing loop.
RunStore ==
  /\ ingest.pc = "store"
  /\ Len(ingest.rets) < Len(ingest.entries)
  /\ LET entry == ingest.entries[Len(ingest.rets) + 1]
         r == store_article(ingest.store, entry)
     IN ingest' = [ingest EXCEPT !.store = r.store, !.st = StoreCall(entry, r),
                                 !.rets = Append(@, r.ret)]
  /\ IngestFrame

\* run, lines 139-150: returns its statistics.
RunReturn ==
  /\ ingest.pc = "store"
  /\ Len(ingest.rets) = Len(ingest.entries)
  /\ ingest' = [ingest EXCEPT !.pc = "idle", !.runs = @ + 1]
  /\ IngestFrame

NextIngest ==
  \/ \E e \in FeedEntries : StoreArticle(e)
  \/ \E es \in EntryLists, force \in BOOLEAN, enabled \in BOOLEAN : RunFetch(es, force, enabled)
  \/ RunExtract
  \/ RunExtracted
  \/ RunStore
  \/ RunReturn

SpecIngest == Init /\ [][NextIngest]_vars

\* ------------------------------------------------------------ rate limiter
\* A variant of the lock that lets every thread in.
lock_free_always(l) == TRUE

\* threading.Lock: acquire succeeds when nobody holds it.
lock_free(l) == l = NoThread

Grant(t, time, waited) ==
  [thread |-> t, time |-> time, waited |-> waited, resets |-> limiter.resets]

LimiterFrame ==
  UNCHANGED <<failed_urls, metrics, registry, calls, regs, returned_none, last, snapshot, probe,
              ingest, workers>>

\* Thread t calls wait_if_needed and reaches `with self.lock`.
WaitIfNeeded(t) ==
  /\ limiter.pc[t] = "idle"
  /\ limiter.waits[t] < MaxWaits
  /\ limiter' = [limiter EXCEPT !.pc[t] = "lock", !.waits[t] = @ + 1]
  /\ LimiterFrame

\* Lines 34-35: t gets the lock and reads the clock.
Acquire(t) ==
  /\ limiter.pc[t] = "lock"
  /\ lock_free(limiter.lock)
  /\ limiter' = [limiter EXCEPT !.lock = t, !.pc[t] = "locked",
                                !.current_time[t] = limiter.now]
  /\ LimiterFrame

\* Lines 37-47 and 53-54: first call, call inside the interval (goes to
\* sleep holding the lock), call after it.
Decide(t) ==
  /\ limiter.pc[t] = "locked"
  /\ LET cur == limiter.current_time[t]
         since == cur - limiter.last_call_time
     IN IF limiter.last_call_time /= NoTime /\ since < min_interval
        THEN limiter' = [limiter EXCEPT !.pc[t] = "sleep",
                                        !.wait_time[t] = min_interval - since]
        ELSE limiter' = [limiter EXCEPT !.last_call_time = cur,
                                        !.grants = Append(@, Grant(t, cur, 0)),
                                        !.lock = NoThread, !.pc[t] = "idle"]
  /\ LimiterFrame

\* Lines 48-50: time.sleep(wait_time) lasts at least wait_time; the clock
\* is read again, the lock released and wait_time returned.
Sleep(t) ==
  /\ limiter.pc[t] = "sleep"
  /\ \E over \in 0..MaxOversleep :
       LET woke == limiter.now + limiter.wait_time[t] + over
       IN limiter' = [limiter EXCEPT !.now = woke, !.last_call_time = woke,
                                     !.grants = Append(@, Grant(t, woke, limiter.wait_time[t])),
                                     !.lock = NoThread, !.pc[t] = "idle"]
  /\ LimiterFrame

\* Lines 56-59: reset, by a thread that gets the lock.
Reset ==
  /\ lock_free(limiter.lock)
  /\ limiter.resets < MaxResets
  /\ limiter' = [limiter EXCEPT !.last_call_time = NoTime, !.resets = @ + 1]
  /\ LimiterFrame

\* A second passes.
Tick ==
  /\ limiter.now < MaxTime
  /\ limiter' = [limiter EXCEPT !.now = @ + 1]
  /\ LimiterFrame

ThreadStep(t) == Acquire(t) \/ Decide(t) \/ Sleep(t)

NextLimiter ==
  \/ \E t \in Threads : WaitIfNeeded(t)
  \/ \E t \in Threads : Acquire(t)
  \/ \E t \in Threads : Decide(t)
  \/ \E t \in Threads : Sleep(t)
  \/ Reset
  \/ Tick

\* A thread that can run does run: the scheduler leaves no runnable thread
\* out forever, and a sleep ends.
SpecLimiter ==
  Init /\ [][NextLimiter]_vars /\ \A t \in Threads : WF_vars(ThreadStep(t))

\* ----------------------------------------------- threads on one extractor
\* URLs that reach the generic chain directly: not an aggregator post, no
\* preprint, no pattern, no document.
ThreadURLs == {U_article}

\* A variant of `+= 1` that adds two.
incremented_twice(v) == v + 2

\* self.metrics[k] += 1 stores the loaded value plus one.
incremented(v) == v + 1

WorkersFrame ==
  UNCHANGED <<registry, calls, regs, returned_none, last, snapshot, probe, ingest, limiter>>

\* Thread t is at the `+= 1` of counter f, to go on at statement nxt.
AtIncrement(t, f, nxt) ==
  [workers EXCEPT !.th[t].pc = "load", !.th[t].fld = f, !.th[t].next = nxt]

\* Thread t calls extract(u) on the shared extractor.
ThreadCall(t, u) ==
  /\ workers.th[t].pc = "idle"
  /\ workers.th[t].ncalls < MaxThreadCalls
  /\ ~is_lemmy_url(u)
  /\ convert_arxiv_to_pdf(u) = u
  /\ get_handler(registry, u) = NoMatch
  /\ ~is_pdf_url(u)
  /\ workers' = [workers EXCEPT !.th[t].pc = "cache", !.th[t].url = u,
                                !.th[t].ret = NoneC, !.th[t].ncalls = @ + 1]
  /\ UNCHANGED <<failed_urls, metrics>>
  /\ WorkersFrame

\* Lines 279-335: the cache lookup, then the first increment of the call.
CheckCache(t) ==
  /\ workers.th[t].pc = "cache"
  /\ workers' = IF is_cached(failed_urls, workers.th[t].url)
                THEN AtIncrement(t, "cached_failures", "return")
                ELSE AtIncrement(t, "total_attempts", "primary")
  /\ UNCHANGED <<failed_urls, metrics>>
  /\ WorkersFrame

\* self.metrics[k] += 1, first half: the value is loaded.
Load(t) ==
  /\ workers.th[t].pc = "load"
  /\ LET f == workers.th[t].fld
         open == \E o \in Threads \ {t} : workers.th[o].pc = "store" /\ workers.th[o].fld = f
     IN workers' = [workers EXCEPT !.th[t].pc = "store", !.th[t].tmp = metrics[f],
                                   !.raced[f] = @ \/ open]
  /\ UNCHANGED <<failed_urls, metrics>>
  /\ WorkersFrame

\* self.metrics[k] += 1, second half: the sum is stored.
Store(t) ==
  /\ workers.th[t].pc = "store"
  /\ LET f == workers.th[t].fld
     IN /\ metrics' = [metrics EXCEPT ![f] = incremented(workers.th[t].tmp)]
        /\ workers' = [workers EXCEPT !.th[t].pc = workers.th[t].next,
                                      !.performed[f] = @ + 1]
  /\ UNCHANGED failed_urls
  /\ WorkersFrame

\* Lines 338-342: the primary extractor.
Primary(t) ==
  /\ workers.th[t].pc = "primary"
  /\ \E v \in {Used(extract_with_trafilatura(workers.th[t].url, e)).val :
                  e \in TrafEnvs(workers.th[t].url)} :
       workers' = IF v /= NoneC
                  THEN [AtIncrement(t, "trafilatura_success", "return") EXCEPT !.th[t].ret = v]
                  ELSE [workers EXCEPT !.th[t].pc = "secondary"]
  /\ UNCHANGED <<failed_urls, metrics>>
  /\ WorkersFrame

\* Lines 345-352: the secondary extractor; exhaustion caches the URL.
Secondary(t) ==
  /\ workers.th[t].pc = "secondary"
  /\ \E v \in {Used(extract_with_newspaper(workers.th[t].url, e)).val :
                  e \in NewsEnvs(workers.th[t].url)} :
       IF v /= NoneC
       THEN /\ workers' = [AtIncrement(t, "newspaper_success", "return") EXCEPT !.th[t].ret = v]
            /\ UNCHANGED failed_urls
       ELSE /\ workers' = AtIncrement(t, "failures", "return")
            /\ failed_urls' = cache_failure(failed_urls, workers.th[t].url, workers.th[t].url)
  /\ UNCHANGED metrics
  /\ WorkersFrame

\* Lines 281, 342, 349, 355: the call returns.
Return(t) ==
  /\ workers.th[t].pc = "return"
  /\ workers' = [workers EXCEPT !.th[t].pc = "idle"]
  /\ UNCHANGED <<failed_urls, metrics>>
  /\ WorkersFrame

NextThreads ==
  \/ \E t \in Threads, u \in ThreadURLs : ThreadCall(t, u)
  \/ \E t \in Threads : CheckCache(t)
  \/ \E t \in Threads : Load(t)
  \/ \E t \in Threads : Store(t)
  \/ \E t \in Threads : Primary(t)
  \/ \E t \in Threads : Secondary(t)
  \/ \E t \in Threads : Return(t)

SpecThreads == Init /\ [][NextThreads]_vars

\* ------------------------------------------------------------------ claims
\* Strategy steps of the last call.
Ran(step) == \E i \in 1..Len(last.steps) : last.steps[i] = step

\* The last call got as far as dispatch (not served from the failure cache,
\* not raised, aggregator resolved if there was one).
Dispatched ==
  /\ last.called
  /\ ~last.raised
  /\ last.url \notin last.before.failed
  /\ ~(last.lemmy.tried /\ last.lemmy.dest = NoURL)

\* C1: extract never raises to its caller: every call returns a pair whose
\* first component is a content string or None.
C1_NeverRaises == last.called => ~last.raised

\* C2: cache idempotence: once some extract(u) has returned no content, every
\* later extract(u) makes zero network requests, runs no strategy and returns
\* (None, u).
C2_CacheIdempotence ==
  (last.called /\ last.prior_none) =>
    /\ ~last.raised
    /\ last.net = 0
    /\ last.steps = <<>>
    /\ last.content = NoneC
    /\ last.resolved = last.url

C2_Witness == last.called /\ last.prior_none /\ last.url = U_lemmy

\* C3: a call that returns no content returns the input URL and leaves the
\* input URL (not a resolved destination) in the failure cache; a call that
\* returns content adds nothing to the failure cache.
C3_FailureKeyedOnInput ==
  (last.called /\ ~last.raised) =>
    /\ last.content = NoneC => (last.resolved = last.url /\ last.url \in failed_urls)
    /\ last.content = NoneC => failed_urls = last.before.failed \cup {last.url}
    /\ last.content /= NoneC => failed_urls = last.before.failed

C3_Witness ==
  /\ last.called
  /\ last.content = NoneC
  /\ last.disp /= last.url
  /\ Ran("doc")

\* C4: a matched handler that follows the extension contract and returns
\* (content, metadata) with content above the textual threshold makes extract
\* return that content with the resolved URL, count one use of the pattern
\* and skip the generic chain.
C4_ContractHandler ==
  (/\ Dispatched
   /\ last.pname /= ""
   /\ last.hret.k = "tuple"
   /\ last.hret.len > TextThreshold) =>
    /\ last.content = Str(last.hret.len, last.hret.pad)
    /\ last.resolved = last.disp
    /\ metrics.has_pe
    /\ last.pname \in DOMAIN metrics.pe
    /\ metrics.pe[last.pname] =
         (IF last.pname \in DOMAIN last.before.metrics.pe
          THEN last.before.metrics.pe[last.pname] ELSE 0) + 1
    /\ ~Ran("primary")
    /\ ~Ran("secondary")

\* URLs on which lookup is probed.
ProbeURLs == {u \in InputURLs \cup {U_final, U_msub, U_mshort} : u.ok}

\* C5: priority invariant: lookup(u) returns a matching pattern of the
\* highest priority among the matching ones; one extract call invokes the
\* handler of that pattern only, and when it delivers no content the document
\* check or the generic chain comes next, never another pattern's handler.
C5_Priority ==
  /\ \A u \in ProbeURLs : \A i \in 1..Len(registry) :
       matches(registry[i], u) =>
         /\ get_handler(registry, u).found
         /\ registry[get_handler(registry, u).idx].priority >= registry[i].priority
         /\ get_handler(registry, u).idx <= i
  /\ Dispatched =>
       /\ Cardinality({i \in 1..Len(last.steps) : last.steps[i] = "handler"}) <= 1
       /\ Ran("handler") <=> get_handler(registry, last.disp).found
       /\ Ran("handler") => last.pname = get_handler(registry, last.disp).name
       /\ \A i \in 1..Len(last.steps) :
            (last.steps[i] = "handler" /\ i < Len(last.steps)) =>
              last.steps[i + 1] \in {"doc", "primary"}
       /\ \A i \in 1..Len(last.steps) :
            (last.steps[i] = "handler" /\ i = Len(last.steps)) => last.content = last.hret

C5_Witness ==
  /\ Dispatched
  /\ last.pname = "plug_hi"
  /\ matches(PdfPattern, last.disp)
  /\ last.hret = Str(TextThreshold, 1)
  /\ last.steps = <<"handler", "doc">>

\* C6: the document path is terminal: for a URL the built-in document
\* pattern matches, extract never runs the primary or the secondary
\* extractor, and a failure is cached in the same call.
C6_DocumentTerminal ==
  (Dispatched /\ matches(PdfPattern, last.disp)) =>
    /\ ~Ran("primary")
    /\ ~Ran("secondary")
    /\ last.content = NoneC =>
         (last.url \in failed_urls /\ last.url \notin last.before.failed)

\* C7: an aggregator URL whose destination cannot be resolved yields
\* (None, input URL), is cached in the same call, and no pattern handler,
\* document extraction or generic extractor runs on it.
C7_UnresolvedAggregator ==
  (last.called /\ last.lemmy.tried /\ last.lemmy.dest = NoURL) =>
    /\ last.content = NoneC
    /\ last.resolved = last.url
    /\ last.url \in failed_urls
    /\ last.url \notin last.before.failed
    /\ last.steps = <<"lemmy">>
    /\ last.pname = ""
    /\ last.checks = {}

C7_Witness ==
  /\ last.called
  /\ last.lemmy.tried
  /\ last.lemmy.dest = NoURL
  /\ last.url = U_post
  /\ last.net > 0

\* C8: when the read API gives no usable destination and the post page
\* carries one (external-link anchor, else Open-Graph URL, else post-body
\* link), resolution returns it and extraction proceeds on it.
C8_HtmlFallback ==
  (/\ last.called
   /\ last.lemmy.tried
   /\ last.lemmy.via = "html"
   /\ last.lemmy.hfetch = "ok"
   /\ lemmy_html_destination(last.lemmy.page) /= NoURL) =>
    /\ last.lemmy.dest = lemmy_html_destination(last.lemmy.page)
    /\ last.disp = convert_arxiv_to_pdf(last.lemmy.dest)
    /\ Len(last.steps) > 1

\* The call resolved an indirection: an aggregator destination was found or
\* an abstract-page URL was rewritten.
IndirectionResolved ==
  Dispatched /\ ((last.lemmy.tried /\ last.lemmy.dest /= NoURL) \/ last.arxiv)

\* resolved_url is neither the aggregator URL nor an abstract-page URL.
CanonicalResolved ==
  /\ last.resolved /= last.url
  /\ ~is_lemmy_url(last.resolved)
  /\ convert_arxiv_to_pdf(last.resolved) = last.resolved

\* C9 as stated: after successful indirection resolution resolved_url is never
\* the aggregator or abstract-page URL, in every outcome of the call.
C9_EveryOutcome == IndirectionResolved => CanonicalResolved

\* C9 amended: after successful indirection resolution, a call that returns
\* content never returns the aggregator or abstract-page URL with it; a call
\* that returns no content returns the input URL.
C9_WithContent ==
  /\ (IndirectionResolved /\ last.content /= NoneC) => CanonicalResolved
  /\ (IndirectionResolved /\ last.content = NoneC) => last.resolved = last.url

C9_Witness ==
  /\ IndirectionResolved
  /\ last.content /= NoneC
  /\ last.arxiv
  /\ last.lemmy.tried

\* C10: textual threshold strictness: every textual acceptance check
\* (dispatch, source-code host, JSON-LD, primary, secondary) accepts exactly
\* the texts whose whitespace-trimmed length is greater than 100.
C10_TextThresholdStrict ==
  \A ch \in last.checks :
    /\ ch.site \in {"dispatch", "github", "jsonld", "primary", "secondary"}
    /\ ch.acc <=> (ch.c.k = "str" /\ ch.c.len > TextThreshold)

C10_Witness ==
  /\ last.called
  /\ \E ch \in last.checks :
       ch.site = "primary" /\ ch.c = Str(TextThreshold, 1) /\ ~ch.acc
  /\ \E ch \in last.checks :
       ch.site = "secondary" /\ ch.c = Str(TextThreshold + 1, 0) /\ ch.acc
  /\ last.content = Str(TextThreshold + 1, 0)

\* The document _extract_pdf was applied to came back, named pdf or ending
\* in .pdf, and pdfplumber read it.
PdfRead ==
  /\ probe.fn = "_extract_pdf"
  /\ http_get(probe.arg[2].fetch).ok
  /\ probe.arg[2].ctype \/ (probe.arg[1].ext = ".pdf" /\ probe.arg[1].query = "")
  /\ probe.arg[2].parse

\* C11: document threshold strictness: the page text of a document is
\* accepted iff its trimmed length is strictly greater than 500, so exactly
\* 500 characters are rejected and 501 are accepted.
C11_PdfThresholdStrict ==
  PdfRead =>
    (probe.out.val /= NoneC <=> Strip(probe.arg[2].text).len > PdfThreshold)

\* C12: TLS fallback exactly once: the first request verifies certificates;
\* a second request, with verification disabled, is issued only after a
\* ConnectError whose message names SSL or CERTIFICATE, and its outcome is
\* what the caller gets; any other failure propagates after one request.
C12_TlsFallbackOnce ==
  probe.fn = "_http_get_with_ssl_fallback" =>
    LET first == probe.arg[1]
        retry == probe.arg[2]
        reqs == probe.out.requests
        sslFailure == /\ first.kind = "error"
                      /\ first.cls = "ConnectError"
                      /\ (HasSSL(first.msg) \/ HasCERTIFICATE(first.msg))
    IN /\ Len(reqs) \in {1, 2}
       /\ reqs[1].verify
       /\ Len(reqs) = 2 <=> sslFailure
       /\ Len(reqs) = 2 => (~reqs[2].verify /\ probe.out.result = retry)
       /\ Len(reqs) = 1 => probe.out.result = first

C12_Witness ==
  /\ probe.fn = "_http_get_with_ssl_fallback"
  /\ probe.arg[1] = HttpxError("ConnectError", "CERTIFICATE has expired")
  /\ probe.arg[2] = HttpxError("ConnectError", "SSL handshake failure")
  /\ Len(probe.out.requests) = 2
  /\ probe.out.result = probe.arg[2]

\* The URL starts with http(s)://arxiv.org/abs/ followed by an identifier
\* of the form digits.digits.
IsAbstractPage(u) ==
  /\ u.scheme \in {"http", "https"}
  /\ u.host = <<"arxiv", "org">>
  /\ Len(u.segs) >= 2
  /\ u.segs[1] = "abs"
  /\ arxiv_id(u.segs[2]) /= ""

\* C13: preprint conversion is a pure transform: an abstract-page URL with
\* identifier i becomes https://arxiv.org/pdf/i.pdf, every other URL comes
\* back unchanged, converting twice equals converting once, and the
\* extractor's state is untouched.
C13_ArxivConversion ==
  probe.fn = "_convert_arxiv_to_pdf" =>
    LET u == probe.arg[1]
    IN /\ IsAbstractPage(u) =>
            probe.out.once =
              URL("https", <<"arxiv", "org">>, <<"pdf", arxiv_id(u.segs[2])>>, ".pdf", "")
       /\ ~IsAbstractPage(u) => probe.out.once = u
       /\ probe.out.twice = probe.out.once
       /\ failed_urls = {} /\ metrics = InitMetrics /\ calls = 0

C13_Witness ==
  /\ probe.fn = "_convert_arxiv_to_pdf"
  /\ probe.arg[1] = URL("http", <<"arxiv", "org">>, <<"abs", "2501.02496v2">>, "", "context=cs")
  /\ probe.out.once = URL("https", <<"arxiv", "org">>, <<"pdf", "2501.02496">>, ".pdf", "")

\* The patterns of priority k in s, in the order they stand in s.
WithPriority(s, k) ==
  LET T(x) == x.priority = k IN SelectSeq(s, T)

\* C14: after any sequence of register calls the list is sorted by
\* descending priority, and for every priority the patterns of that priority
\* in the list are exactly the registrations of that priority, each once
\* and in registration order.
C14_RegistrySorted ==
  probe.fn = "register" =>
    LET log == probe.arg
        reg == probe.out
    IN /\ Len(reg) = Len(log)
       /\ \A i, j \in 1..Len(reg) : i < j => reg[i].priority >= reg[j].priority
       /\ \A k \in {log[i].priority : i \in 1..Len(log)} \cup {reg[i].priority : i \in 1..Len(reg)} :
            WithPriority(reg, k) = WithPriority(log, k)

C14_Witness ==
  /\ probe.fn = "register"
  /\ Len(probe.arg) = 2 + MaxSeq
  /\ probe.arg[3].name = "plug_tie"
  /\ probe.arg[4].name = "plug_hi"
  /\ probe.arg[5].name = "plug_ten"
  /\ probe.out[1].name = "plug_hi"
  /\ probe.out[3].name = "plug_ten"
  /\ probe.out[5].name = "plug_tie"

\* C15: the patterns an installed plugin supplies through its
\* register_extractors hook are in the registry of every constructed
\* extractor, nobody having called the hook by hand.
C15_PluginsAutoLoaded ==
  \A p \in PluginPatterns : \E i \in 1..Len(registry) : registry[i] = p

\* The last call was the first one on a freshly constructed extractor and
\* its URL is on the source-code host.
FreshGithubCall ==
  /\ last.called
  /\ last.before.metrics = InitMetrics
  /\ last.before.failed = {}
  /\ regs = 0
  /\ last.url.ok
  /\ matches(GithubPattern, last.url)

\* What C16 promises of such a call, text being the container's text.
GithubReadmeReturned(text) ==
  /\ last.content = text
  /\ last.resolved = last.url
  /\ metrics.has_pe
  /\ metrics.pe = [n \in {"github"} |-> 1]
  /\ metrics.total_attempts = 1
  /\ last.steps = <<"handler">>
  /\ last.net \in {1, 2}

\* C16 as stated: on a fresh extractor, a source-code-host URL whose page
\* has a readme-like container (article.markdown-body or div#readme) of
\* more than 100 characters returns that container's text with the same
\* URL, counts one "github" use and one attempt, fetches once and skips the
\* generic chain.
C16_AnyReadmePage ==
  (FreshGithubCall /\ (last.gh.article > TextThreshold \/ last.gh.readme > TextThreshold)) =>
    \/ last.gh.article > TextThreshold /\ GithubReadmeReturned(Str(last.gh.article, 0))
    \/ last.gh.readme > TextThreshold /\ GithubReadmeReturned(Str(last.gh.readme, 0))

\* The container the handler reads: article.markdown-body, div#readme only
\* in its absence.
ReadmeContainer == IF last.gh.article > 0 THEN last.gh.article ELSE last.gh.readme

\* C16 amended: the same, for a repository URL (two path segments or more)
\* whose page has more than 100 characters in the container the handler
\* reads and none of the other elements it collects.
C16_ReadmeOnlyPage ==
  (/\ FreshGithubCall
   /\ Len(last.url.segs) >= 2
   /\ ReadmeContainer > TextThreshold
   /\ last.gh.title = 0 /\ last.gh.body = 0 /\ last.gh.release = 0) =>
    GithubReadmeReturned(Str(ReadmeContainer, 0))

C16_Witness ==
  /\ FreshGithubCall
  /\ last.gh = GithubPage(TextThreshold + 1, 300, 0, 0, 0)
  /\ last.content = Str(TextThreshold + 1, 0)
  /\ last.net = 2

\* The matched handler of the last call returned a text the dispatch check
\* accepted.
HandlerAccepted ==
  /\ Dispatched
  /\ last.pname /= ""
  /\ Check("dispatch", last.hret, TRUE) \in last.checks

\* C17: reset_metrics puts the metrics back to those of a freshly built
\* extractor, so the call that follows a reset behaves as it does on a fresh
\* extractor: a handler result that passes the dispatch check is returned
\* at once, no further strategy runs, and the counters read one attempt,
\* one success and one use of the pattern.
C17_ResetLikeFresh ==
  (HandlerAccepted /\ last.before.metrics \in {InitMetrics, ResetValue}) =>
    /\ last.content = last.hret
    /\ ~Ran("doc") /\ ~Ran("primary") /\ ~Ran("secondary")
    /\ metrics.total_attempts = 1
    /\ metrics.trafilatura_success = 1
    /\ metrics.failures = 0
    /\ metrics.has_pe
    /\ metrics.pe = [n \in {last.pname} |-> 1]

\* C18: the value get_metrics returned is a snapshot: no later extract or
\* reset_metrics call changes any of its entries, its pattern map included,
\* and a write of its holder changes nothing in the extractor's own metrics.
C18_MetricsSnapshot ==
  snapshot.taken => (snapshot.value = snapshot.orig /\ ~snapshot.leaked)

\* C19: an extract call on a URL already in the failure cache returns
\* (None, url) without a request and changes nothing except cached_failures,
\* which grows by exactly one: every other counter, pattern_extractions, the
\* failure cache and the registry keep their values.
C19_CachedFailureFrame ==
  [][(~last.called /\ last'.called /\ is_cached(failed_urls, last'.url))
       => /\ metrics' = [metrics EXCEPT !.cached_failures = @ + 1]
          /\ failed_urls' = failed_urls
          /\ registry' = registry
          /\ last'.content = NoneC /\ last'.resolved = last'.url
          /\ ~last'.raised /\ last'.net = 0]_vars

C19_Witness ==
  /\ last.called /\ is_cached(last.before.failed, last.url)
  /\ metrics.cached_failures = last.before.metrics.cached_failures + 1

\* The fetch URL is the canonical URL with the one segment "m" put directly
\* after the host.
InsertedAfterHost(c, f) == f = [c EXCEPT !.segs = <<"m">> \o @]

MediumPrepared == probe.fn = "_prepare_medium_url"

\* C20: for a canonical URL classified "short" or "subdomain" the fetch URL
\* equals the canonical URL; for every canonical URL classified "standard"
\* the fetch URL is the canonical URL with one path segment inserted directly
\* after the host.
C20_MediumShape ==
  MediumPrepared =>
    LET c == probe.arg[1]
        t == probe.out.type
        f == probe.out.fetch
    IN /\ t \in {"short", "subdomain", "standard"}
       /\ t \in {"short", "subdomain"} => f = c
       /\ t = "standard" => InsertedAfterHost(c, f)

\* C20 (amended): "short" and "subdomain" canonical URLs are fetched as they
\* are; a "standard" canonical URL on the host medium.com that has a path is
\* fetched with the one segment inserted directly after the host.
C20_MediumShapeOnMediumHost ==
  MediumPrepared =>
    LET c == probe.arg[1]
        t == probe.out.type
        f == probe.out.fetch
    IN /\ t \in {"short", "subdomain", "standard"}
       /\ t \in {"short", "subdomain"} => f = c
       /\ (t = "standard" /\ c.host = <<"medium", "com">> /\ Len(c.segs) >= 1)
            => InsertedAfterHost(c, f)

C20_Witness ==
  /\ MediumPrepared /\ probe.out.type = "standard"
  /\ probe.arg[1].host = <<"medium", "com">>
  /\ probe.out.fetch /= probe.arg[1]

\* Requests made by the strategy step of the given name in the last call.
StepIndexes(step) == {i \in 1..Len(last.steps) : last.steps[i] = step}

\* C25: in the generic chain the page is fetched once per call: the
\* secondary extractor works on the HTML fetched for the primary extractor
\* and makes no network request of its own.
C25_SecondaryReusesHtml ==
  last.called => \A i \in StepIndexes("secondary") : last.nets[i] = 0

\* C26: within one call every strategy is attempted at most once; a failed
\* document download-and-extract (the document pattern's handler) is not
\* followed by the document extraction of the legacy check.
C26_EachStrategyOnce ==
  last.called =>
    /\ \A st \in {"handler", "doc", "primary", "secondary"} : Cardinality(StepIndexes(st)) <= 1
    /\ ~(Ran("handler") /\ last.pname = PdfPattern.name /\ Ran("doc"))

\* C27: within one call resolution happens at most once: one aggregator
\* lookup, and the canonical URL of a paywalled-blog page fetched at most once.
C27_ResolveOnce ==
  last.called =>
    /\ Cardinality(StepIndexes("lemmy")) <= 1
    /\ last.canons <= 1

\* The canonical URL _resolve_medium_canonical reads off the first page.
CanonicalOf(u, pg) == IF pg.link /= NoURL THEN pg.link ELSE IF pg.og /= NoURL THEN pg.og ELSE u

\* The last call went to the primary extractor first, on a paywalled-blog
\* URL whose first fetch succeeded.
MediumFirstFetched ==
  /\ last.called /\ is_medium(last.url)
  /\ Len(last.steps) >= 1 /\ last.steps[1] = "primary"
  /\ http_get(last.menv.fetch).ok

\* C28: when the first HTML fetched for a paywalled-blog URL carries a
\* JSON-LD article body above the textual threshold, extract returns that
\* body with the canonical URL, after that one fetch only and without
\* running the primary or the secondary extractor.
C28_JsonLdFirst ==
  (MediumFirstFetched /\ text_ok(last.menv.page.jsonld)) =>
    /\ last.content = Strip(last.menv.page.jsonld)
    /\ last.resolved = CanonicalOf(last.url, last.menv.page)
    /\ last.steps = <<"primary">>
    /\ last.nets = <<http_get(last.menv.fetch).reqs>>
    /\ last.canons = 1
    /\ \A ch \in last.checks : ch.site = "jsonld"
    /\ metrics = Inc(Inc(last.before.metrics, "total_attempts"), "trafilatura_success")

C28_Witness ==
  /\ MediumFirstFetched
  /\ last.url = U_medium
  /\ last.menv.page.jsonld = Str(TextThreshold + 1, 0)
  /\ last.content = Str(TextThreshold + 1, 0)
  /\ last.resolved = U_mshort

\* The four outcome counters of a metrics record, added up.
Outcomes(m) == m.trafilatura_success + m.newspaper_success + m.failures + m.cached_failures

\* C29: every extract call adds exactly one to exactly one outcome counter
\* (primary_success, fallback_success, failures, cached_failures) and lowers
\* none.
C29_OneOutcomePerCall ==
  last.called =>
    /\ Outcomes(metrics) = Outcomes(last.before.metrics) + 1
    /\ \A f \in {"trafilatura_success", "newspaper_success", "failures", "cached_failures",
                  "total_attempts"} : metrics[f] >= last.before.metrics[f]

\* C30: as long as reset_metrics has not been called, total_attempts equals
\* primary_success + fallback_success + failures.
C30_AttemptsBalance ==
  metrics.has_pe =>
    metrics.total_attempts =
      metrics.trafilatura_success + metrics.newspaper_success + metrics.failures

\* Some row of table has the source id sid.
Stored(table, sid) == \E i \in 1..Len(table) : table[i].source_id = sid

\* C23: the table holds at most one article per source_id; _store_article on
\* an entry whose source_id is stored returns None and leaves every row as
\* it was, whatever content and URL the entry carries; on a new source_id it
\* adds one row and returns its id.
C23_OneArticlePerSource ==
  /\ \A i, j \in 1..Len(ingest.store) :
       ingest.store[i].source_id = ingest.store[j].source_id => i = j
  /\ ingest.st.called =>
       IF Stored(ingest.st.before, ingest.st.entry.source_id)
       THEN ingest.st.ret = NoId /\ ingest.st.after = ingest.st.before
       ELSE /\ ingest.st.ret = Len(ingest.st.after)
            /\ Len(ingest.st.after) = Len(ingest.st.before) + 1
            /\ SubSeq(ingest.st.after, 1, Len(ingest.st.before)) = ingest.st.before
            /\ ingest.st.after[ingest.st.ret].source_id = ingest.st.entry.source_id

C23_Witness ==
  /\ ingest.st.called
  /\ ingest.st.ret = NoId
  /\ \E i \in 1..Len(ingest.st.before) :
       /\ ingest.st.before[i].source_id = ingest.st.entry.source_id
       /\ ingest.st.before[i].url /= ingest.st.entry.url
       /\ ingest.st.before[i].content /= ingest.st.entry.content
  /\ ingest.store = ingest.st.before

\* C24: in a run, an entry for which extract returned content carries the
\* content and resolved_url from then on, and that URL is the one stored when
\* the entry is stored as a new article; an entry for which extract returned
\* no content stays as the source delivered it.
C24_ResolvedUrlPersisted ==
  \A i \in 1..Len(ingest.ext) :
    (ingest.ext[i].called /\ ~ingest.ext[i].raised) =>
      /\ Truthy(ingest.ext[i].content) =>
           /\ ingest.entries[i].url = ingest.ext[i].resolved
           /\ ingest.entries[i].content = ingest.ext[i].content
           /\ (i <= Len(ingest.rets) /\ ingest.rets[i] /= NoId) =>
                ingest.store[ingest.rets[i]].url = ingest.ext[i].resolved
      /\ ~Truthy(ingest.ext[i].content) =>
           /\ ingest.entries[i] = ingest.found[i]
           /\ (i <= Len(ingest.rets) /\ ingest.rets[i] /= NoId) =>
                ingest.store[ingest.rets[i]].url = ingest.found[i].url

C24_Witness ==
  \E i \in 1..Len(ingest.rets) :
    /\ i <= Len(ingest.ext)
    /\ ingest.ext[i].called /\ Truthy(ingest.ext[i].content)
    /\ ingest.ext[i].resolved = U_final
    /\ ingest.found[i].url /= U_final
    /\ ingest.rets[i] /= NoId
    /\ ingest.store[ingest.rets[i]].url = U_final

\* Threads between acquiring and releasing self.lock.
InLimiter == {t \in Threads : limiter.pc[t] \in {"locked", "sleep"}}

\* Grants i < j with no reset between them.
SameEpoch(i, j) == limiter.grants[i].resets = limiter.grants[j].resets

C22_Safety ==
  /\ Cardinality(InLimiter) <= 1
  /\ \A t \in InLimiter : limiter.lock = t
  /\ \A i, j \in 1..Len(limiter.grants) :
       (i < j /\ SameEpoch(i, j)) =>
         limiter.grants[j].time - limiter.grants[i].time >= (j - i) * min_interval
  /\ \A i \in 1..Len(limiter.grants) :
       (i = 1 \/ ~SameEpoch(i - 1, i)) => limiter.grants[i].waited = 0

C22_EveryCallReturns ==
  \A t \in Threads : (limiter.pc[t] = "lock") ~> (limiter.pc[t] = "idle")

\* C22: with threads calling wait_if_needed concurrently, every call
\* returns, at most one thread is inside the lock, the times recorded by two
\* consecutive calls are at least min_interval apart (so n calls span at
\* least (n-1) * min_interval), and the first call and the first call after
\* a reset return 0.0; a reset starts the count of calls anew.
C22_ThreadSafe == []C22_Safety /\ C22_EveryCallReturns

\* Two threads called together; the second slept; after a reset the third
\* call was let through at once, less than min_interval after the second.
C22_Witness ==
  /\ Len(limiter.grants) >= 3
  /\ limiter.grants[1].thread /= limiter.grants[2].thread
  /\ limiter.grants[2].waited > 0
  /\ SameEpoch(1, 2)
  /\ ~SameEpoch(2, 3)
  /\ limiter.grants[3].waited = 0

\* Increments of counter f that left no trace in it.
Lost(f) == workers.performed[f] - metrics[f]

\* No thread is inside extract.
AllReturned == \A t \in Threads : workers.th[t].pc = "idle"

\* C21: with threads calling extract on one extractor a counter never
\* exceeds the number of increments performed on it and keeps at least one of
\* them, and it falls short of that number only when a thread loaded the
\* counter between another thread's load and store of it: increments are
\* lost, and only to concurrent calls.
C21_LostOnlyToRaces ==
  \A f \in Counters :
    /\ Lost(f) >= 0
    /\ workers.performed[f] > 0 => metrics[f] >= 1
    /\ Lost(f) > 0 => workers.raced[f]

\* Two calls have returned, each incremented total_attempts, and the counter
\* reads 1.
C21_Witness ==
  /\ AllReturned
  /\ \A t \in Threads : workers.th[t].ncalls = 1
  /\ workers.performed["total_attempts"] = NumThreads
  /\ metrics.total_attempts = 1
  /\ Lost("total_attempts") = NumThreads - 1

====
